---- MODULE Spec2Model ----
(***************************************************************************)
(* Model of the Tami knowledge-graph operations                            *)
(* (scripts/neo4j/operations/entities.py, relationships.py) over the       *)
(* Neo4j store they drive through Neo4jClient.run_query.                   *)
(*                                                                         *)
(* The store is the graph the Cypher statements act on: Entity nodes,      *)
(* Meeting nodes, MENTIONED_IN edges and typed relationship edges.  Edge   *)
(* collections are sequences (creation order) because Neo4j allows         *)
(* parallel edges between the same two nodes.  Every statement is read     *)
(* with Cypher's row semantics: a clause runs once per incoming row.       *)
(* The extraction service (services/langextract/extractor.py) is modelled  *)
(* beside it as the function extract_entities computes.                    *)
(***************************************************************************)
EXTENDS Integers, Sequences, FiniteSets, TLC

VARIABLES
    entities,   \* Entity nodes: id -> node record (entity_id constraint: ids unique)
    meetings,   \* Meeting nodes: id -> [user_id]
    mentions,   \* MENTIONED_IN edges, a sequence of [entity, meeting] with the edge's properties
    rels,       \* relationship edges, a sequence of [from, to, type, props]
    apoc,       \* whether the APOC procedures are installed in the store
    last,       \* the last call: [op, args, res], with [raised, at] when a transaction failed
    credit,     \* history: per (entity, meeting), the add_mention deltas: [own, absorbed]
    applied,    \* history: per entity key, the deltas of the upserts that completed
    ops,        \* number of calls made so far
    pc,         \* per client process: position inside a concurrent upsert_entity
    req,        \* per client process: the Entity it is upserting
    tx          \* the merge_entities transaction in flight: its state, arguments and uncommitted writes

vars == <<entities, meetings, mentions, rels, apoc, last, credit, applied, ops, pc, req, tx>>

(***************************************************************************)
(* Bounds of the model.                                                    *)
(***************************************************************************)
MaxOps == 5

Users == {"u1", "u2"}
EntityIds == {"e1", "e2", "e3", "e4"}
MeetingIds == {"m1", "m2"}
NoMeeting == "m9"
NoEntity == "e9"
Procs == {"p1", "p2"}

Range(s) == {s[i] : i \in 1..Len(s)}

(***************************************************************************)
(* models.py: EntityType values and the label upsert_entity derives.       *)
(***************************************************************************)
EntityType == {"person", "organization"}

Capitalize(t) ==
    CASE t = "person" -> "Person"
      [] t = "organization" -> "Organization"
      [] OTHER -> t

(* str.lower() on the raw values the model draws from. *)
RawValues == {"Bob", "bob", "rob", "ann", "Bob ", ""}

Lower(s) ==
    CASE s = "Bob" -> "bob"
      [] s = "Bob " -> "bob "
      [] OTHER -> s

(***************************************************************************)
(* models.py: Entity and EntityMention fill the fields a caller leaves out *)
(* with their defaults.  An optional value is held in a one-element tuple, *)
(* None being the empty one; confidence 1.0 is held as 100.                *)
(***************************************************************************)
EntityDefaults ==
    [aliases |-> <<>>, description |-> <<>>, mention_count |-> 1, confidence |-> 100,
     sentiment_avg |-> <<>>, is_user_created |-> FALSE]

Entity(given) == given @@ EntityDefaults

EntityMentionDefaults ==
    [timestamp_start |-> <<>>, timestamp_end |-> <<>>, speaker |-> <<>>,
     mention_count |-> 1, sentiment |-> <<>>]

EntityMention(given) == given @@ EntityMentionDefaults

(***************************************************************************)
(* upsert_entity: MERGE (e:Entity:<label> {user_id, normalized_value})     *)
(***************************************************************************)
MergeMatch(es, ent) ==
    {i \in DOMAIN es :
        /\ es[i].label = Capitalize(ent.type)
        /\ es[i].user_id = ent.user_id
        /\ es[i].normalized_value = Lower(ent.normalized_value)}

(* ON CREATE SET with e.mention_count = 1 whatever the caller's count *)
OnCreateSet_count_one(ent) ==
    [id |-> ent.id,
     user_id |-> ent.user_id,
     label |-> Capitalize(ent.type),
     normalized_value |-> Lower(ent.normalized_value),
     display_value |-> ent.display_value,
     aliases |-> ent.aliases,
     description |-> ent.description,
     mention_count |-> 1,
     confidence |-> ent.confidence,
     first_seen |-> ent.first_seen,
     last_seen |-> ent.last_seen,
     sentiment_avg |-> ent.sentiment_avg,
     is_user_created |-> ent.is_user_created]

OnCreateSet(ent) ==
    [id |-> ent.id,
     user_id |-> ent.user_id,
     label |-> Capitalize(ent.type),
     normalized_value |-> Lower(ent.normalized_value),
     display_value |-> ent.display_value,
     aliases |-> ent.aliases,
     description |-> ent.description,
     mention_count |-> ent.mention_count,
     confidence |-> ent.confidence,
     first_seen |-> ent.first_seen,
     last_seen |-> ent.last_seen,
     sentiment_avg |-> ent.sentiment_avg,
     is_user_created |-> ent.is_user_created]

NewAliases(given, have) == SelectSeq(given, LAMBDA a : a \notin Range(have))

OnMatchSet(e, ent) ==
    [e EXCEPT !.mention_count = @ + ent.mention_count,
              !.last_seen = ent.last_seen,
              !.aliases = @ \o NewAliases(ent.aliases, @)]

(* MERGE found the node: ON MATCH SET on every node matched. *)
MatchedStore(es, ent) ==
    [i \in DOMAIN es |->
        IF i \in MergeMatch(es, ent) THEN OnMatchSet(es[i], ent) ELSE es[i]]

(* MERGE found none: the node is created, unless the entity_id constraint  *)
(* (setup_schema.py) refuses an id already in the store.                   *)
CreatedStore(es, ent) ==
    IF ent.id \in DOMAIN es THEN es ELSE es @@ (ent.id :> OnCreateSet(ent))

CreateResult(es, ent) == IF ent.id \in DOMAIN es THEN "raised" ELSE "created"

(* The store after the statement, and what upsert_entity returns or raises. *)
UpsertStore(es, ent) ==
    IF MergeMatch(es, ent) # {} THEN MatchedStore(es, ent) ELSE CreatedStore(es, ent)

UpsertResult(es, ent) ==
    IF MergeMatch(es, ent) # {} THEN "matched" ELSE CreateResult(es, ent)

(* RETURN e: the rows of the statement, the nodes as the statement leaves   *)
(* them, and run_single_query's pick of one of them (None, the empty       *)
(* tuple, when there is no row).                                           *)
UpsertRows(es, ent) ==
    IF MergeMatch(es, ent) # {}
    THEN {MatchedStore(es, ent)[i] : i \in MergeMatch(es, ent)}
    ELSE IF CreateResult(es, ent) = "created" THEN {OnCreateSet(ent)} ELSE {}

run_single_query(rows) == IF rows = {} THEN {<<>>} ELSE {<<row>> : row \in rows}

(***************************************************************************)
(* update_entity: the SET clause is built from the keys of updates that    *)
(* are allowed fields; MATCH (e:Entity {id, user_id}) SET .. RETURN e      *)
(***************************************************************************)
(* every key of updates taken as a field to set *)
set_clauses_any(updates) == DOMAIN updates

allowed_fields == {"display_value", "description", "aliases", "confidence", "sentiment_avg"}

set_clauses(updates) == DOMAIN updates \cap allowed_fields

(* MATCH (e:Entity {id: $entity_id}) without user_id *)
UpdateMatch_id_only(es, entity_id, user_id) == {i \in DOMAIN es : es[i].id = entity_id}

UpdateMatch(es, entity_id, user_id) ==
    {i \in DOMAIN es : es[i].id = entity_id /\ es[i].user_id = user_id}

UpdateSet(e, updates) ==
    [f \in DOMAIN e |-> IF f \in set_clauses(updates) THEN updates[f] ELSE e[f]]

UpdateStore(es, entity_id, user_id, updates) ==
    IF set_clauses(updates) = {} THEN es
    ELSE [i \in DOMAIN es |->
            IF i \in UpdateMatch(es, entity_id, user_id)
            THEN UpdateSet(es[i], updates)
            ELSE es[i]]

UpdateRows(es, entity_id, user_id, updates) ==
    IF set_clauses(updates) = {} THEN {}
    ELSE {UpdateSet(es[i], updates) : i \in UpdateMatch(es, entity_id, user_id)}

(***************************************************************************)
(* add_mention: MATCH e, MATCH m, MERGE (e)-[r:MENTIONED_IN]->(m)          *)
(***************************************************************************)
EdgeIdx(ms, e, m) == {i \in 1..Len(ms) : ms[i].entity = e /\ ms[i].meeting = m}

MentionEndpoints(es, mts, mention) ==
    mention.entity_id \in DOMAIN es /\ mention.meeting_id \in DOMAIN mts

(* ON CREATE SET r.context, r.timestamp_start, r.timestamp_end, r.speaker,  *)
(* r.mention_count, r.sentiment                                            *)
MentionOnCreate(mention) ==
    [entity |-> mention.entity_id, meeting |-> mention.meeting_id,
     context |-> mention.context,
     timestamp_start |-> mention.timestamp_start,
     timestamp_end |-> mention.timestamp_end,
     speaker |-> mention.speaker,
     mention_count |-> mention.mention_count,
     sentiment |-> mention.sentiment]

(* ON MATCH SET writing the details of the call as well *)
MentionOnMatch_overwrite(r, mention) ==
    [r EXCEPT !.mention_count = @ + mention.mention_count,
              !.context = mention.context,
              !.timestamp_start = mention.timestamp_start,
              !.timestamp_end = mention.timestamp_end,
              !.speaker = mention.speaker,
              !.sentiment = mention.sentiment]

(* ON MATCH SET r.mention_count = r.mention_count + $mention_count *)
MentionOnMatch(r, mention) ==
    [r EXCEPT !.mention_count = @ + mention.mention_count]

(* CREATE in place of MERGE: a new edge on every call *)
MergeMention_create(ms, mention) == Append(ms, MentionOnCreate(mention))

MergeMention(ms, mention) ==
    IF EdgeIdx(ms, mention.entity_id, mention.meeting_id) # {}
    THEN [i \in 1..Len(ms) |->
            IF i \in EdgeIdx(ms, mention.entity_id, mention.meeting_id)
            THEN MentionOnMatch(ms[i], mention)
            ELSE ms[i]]
    ELSE Append(ms, MentionOnCreate(mention))

(* the whole pattern MERGEd without the two MATCH clauses *)
AddMentionStore_no_match(es, mts, ms, mention) == MergeMention(ms, mention)

AddMentionStore(es, mts, ms, mention) ==
    IF MentionEndpoints(es, mts, mention) THEN MergeMention(ms, mention) ELSE ms

(***************************************************************************)
(* merge_entities: one statement, clause by clause.                        *)
(***************************************************************************)
(* user_id left out of the MATCH of merge *)
MergeMatched_keep_only(es, user_id, keep_id, merge_id) ==
    /\ keep_id \in DOMAIN es /\ es[keep_id].user_id = user_id
    /\ merge_id \in DOMAIN es

MergeMatched(es, user_id, keep_id, merge_id) ==
    /\ keep_id \in DOMAIN es /\ es[keep_id].user_id = user_id
    /\ merge_id \in DOMAIN es /\ es[merge_id].user_id = user_id

(* OPTIONAL MATCH .. collect .. UNWIND .. WHERE mention.rel IS NOT NULL:    *)
(* one row per MENTIONED_IN edge of merge, none when merge has no edge.    *)
RECURSIVE RowsFrom(_, _, _)
RowsFrom(ms, merge_id, i) ==
    IF i > Len(ms) THEN <<>>
    ELSE IF ms[i].entity = merge_id
         THEN <<i>> \o RowsFrom(ms, merge_id, i + 1)
         ELSE RowsFrom(ms, merge_id, i + 1)

MergeRows(es, ms, user_id, keep_id, merge_id) ==
    IF MergeMatched(es, user_id, keep_id, merge_id)
    THEN RowsFrom(ms, merge_id, 1)
    ELSE <<>>

(* CREATE in place of MERGE: merge's edge is copied whatever keep has *)
TransferRow_append(ms, keep_id, i) ==
    Append(ms, [ms[i] EXCEPT !.entity = keep_id])

(* MERGE (keep)-[nr:MENTIONED_IN]->(mention.meeting), once per row, with    *)
(* (mention.meeting) read as the Meeting node of the row: ON CREATE copies *)
(* the properties of merge's edge, ON MATCH adds its mention_count.        *)
TransferRow(ms, keep_id, i) ==
    IF EdgeIdx(ms, keep_id, ms[i].meeting) # {}
    THEN [j \in 1..Len(ms) |->
            IF j \in EdgeIdx(ms, keep_id, ms[i].meeting)
            THEN [ms[j] EXCEPT !.mention_count = @ + ms[i].mention_count]
            ELSE ms[j]]
    ELSE Append(ms, [ms[i] EXCEPT !.entity = keep_id])

RECURSIVE TransferMentions(_, _, _)
TransferMentions(ms, keep_id, rows) ==
    IF rows = <<>> THEN ms
    ELSE TransferMentions(TransferRow(ms, keep_id, Head(rows)), keep_id, Tail(rows))

(* SET keep.aliases = .., keep.mention_count = .., once per row.           *)
UpdateKeepRow(es, keep_id, merge_id) ==
    [es EXCEPT ![keep_id] =
        [@ EXCEPT !.aliases = @ \o es[merge_id].aliases
                                 \o <<es[merge_id].normalized_value>>,
                  !.mention_count = @ + es[merge_id].mention_count]]

RECURSIVE UpdateKeep(_, _, _, _)
UpdateKeep(es, keep_id, merge_id, n) ==
    IF n = 0 THEN es
    ELSE UpdateKeep(UpdateKeepRow(es, keep_id, merge_id), keep_id, merge_id, n - 1)

(* DETACH DELETE merge *)
DeleteNode(es, id) == [i \in DOMAIN es \ {id} |-> es[i]]
DetachMentions(ms, id) == SelectSeq(ms, LAMBDA r : r.entity # id)
DetachRels(rs, id) == SelectSeq(rs, LAMBDA r : r.from # id /\ r.to # id)

MergeEntitiesOf(es, ms, user_id, keep_id, merge_id) ==
    LET rows == MergeRows(es, ms, user_id, keep_id, merge_id) IN
    IF rows = <<>> THEN es
    ELSE DeleteNode(UpdateKeep(es, keep_id, merge_id, Len(rows)), merge_id)

MergeMentionsOf(es, ms, user_id, keep_id, merge_id) ==
    LET rows == MergeRows(es, ms, user_id, keep_id, merge_id) IN
    IF rows = <<>> THEN ms
    ELSE DetachMentions(TransferMentions(ms, keep_id, rows), merge_id)

MergeRelsOf(es, ms, rs, user_id, keep_id, merge_id) ==
    IF MergeRows(es, ms, user_id, keep_id, merge_id) = <<>> THEN rs
    ELSE DetachRels(rs, merge_id)

(* True returned whatever the statement found *)
MergeReturns_always(es, ms, user_id, keep_id, merge_id) == TRUE

(* result is not None: the statement returned at least one row *)
MergeReturns(es, ms, user_id, keep_id, merge_id) ==
    MergeRows(es, ms, user_id, keep_id, merge_id) # <<>>

(***************************************************************************)
(* relationships.py: the compatibility table and create_relationship.      *)
(***************************************************************************)
VALID_RELATIONSHIPS(from_label, to_label) ==
    CASE from_label = "Person" /\ to_label = "Organization" -> {"WORKS_AT", "FOUNDED", "LEADS"}
      [] from_label = "Person" /\ to_label = "Project" -> {"MANAGES", "WORKS_ON", "OWNS"}
      [] from_label = "Person" /\ to_label = "Person" -> {"COLLABORATES_WITH", "REPORTS_TO", "MENTORS"}
      [] from_label = "Person" /\ to_label = "ActionItem" -> {"ASSIGNED_TO"}
      [] from_label = "Project" /\ to_label = "Technology" -> {"USES", "BUILT_WITH"}
      [] from_label = "Project" /\ to_label = "Topic" -> {"RELATED_TO", "ADDRESSES"}
      [] from_label = "Organization" /\ to_label = "Location" -> {"LOCATED_IN", "OPERATES_IN"}
      [] from_label = "ActionItem" /\ to_label = "Date" -> {"SCHEDULED_FOR", "DUE_ON"}
      [] OTHER -> {}

(* models.py RelationshipType: the closed vocabulary pydantic accepts. *)
RelationshipType ==
    {"MENTIONED_IN", "WORKS_AT", "MANAGES", "COLLABORATES_WITH", "ASSIGNED_TO",
     "REPORTS_TO", "USES", "RELATED_TO", "DEPENDS_ON", "LOCATED_IN",
     "SCHEDULED_FOR", "CREATED_IN"}

(* apoc.create.relationship(from, $rel_type, $properties, to): the         *)
(* properties map built in Python, created_at being the literal string.    *)
ApocProps(rel) ==
    [confidence |-> rel.confidence, source |-> rel.source,
     created_at |-> "datetime()", extra |-> rel.properties]

(* CREATE (from)-[r:<rel_type> {confidence, source, created_at: datetime()}]->(to) *)
FallbackProps(rel) ==
    [confidence |-> rel.confidence, source |-> rel.source,
     created_at |-> "now", extra |-> {}]

RelEndpoints(es, rel) ==
    rel.from_entity_id \in DOMAIN es /\ rel.to_entity_id \in DOMAIN es

CreateEdge(rs, rel, props) ==
    Append(rs, [from |-> rel.from_entity_id, to |-> rel.to_entity_id,
                type |-> rel.relationship_type, props |-> props])

CreateRelationshipStore(es, rs, ap, rel) ==
    IF RelEndpoints(es, rel)
    THEN CreateEdge(rs, rel, IF ap THEN ApocProps(rel) ELSE FallbackProps(rel))
    ELSE rs

(***************************************************************************)
(* delete_relationship: relationship_type, any str, is put into the query  *)
(* text; MATCH (from {id, user_id})-[r:<type>]->(to {id}) DELETE r         *)
(* RETURN count(r).  delete_entity: MATCH (e {id, user_id}) DETACH DELETE. *)
(***************************************************************************)
DeleteRelMatch(es, rs, from_entity_id, to_entity_id, relationship_type, user_id) ==
    {i \in 1..Len(rs) :
        /\ rs[i].from = from_entity_id /\ rs[i].to = to_entity_id
        /\ rs[i].type = relationship_type
        /\ es[rs[i].from].user_id = user_id}

RECURSIVE Without(_, _)
Without(rs, idx) ==
    IF rs = <<>> THEN <<>>
    ELSE IF Len(rs) \in idx THEN Without(SubSeq(rs, 1, Len(rs) - 1), idx)
         ELSE Append(Without(SubSeq(rs, 1, Len(rs) - 1), idx), rs[Len(rs)])

DeleteEntityMatch(es, entity_id, user_id) ==
    {i \in DOMAIN es : es[i].id = entity_id /\ es[i].user_id = user_id}

(***************************************************************************)
(* infer_collaborations: MATCH the pairs of Person entities sharing        *)
(* meetings, MERGE a COLLABORATES_WITH edge per pair.                      *)
(***************************************************************************)
(* p1.id < p2.id on the ids of the model *)
IdRank == [e \in EntityIds |->
              CASE e = "e1" -> 1 [] e = "e2" -> 2 [] e = "e3" -> 3 [] OTHER -> 4]

IdLess(a, b) == IdRank[a] < IdRank[b]

(* count(DISTINCT m) over (p1)-[:MENTIONED_IN]->(m:Meeting)<-[:MENTIONED_IN]-(p2) *)
SharedMeetings(ms, a, b) ==
    {m \in {ms[i].meeting : i \in 1..Len(ms)} :
        EdgeIdx(ms, a, m) # {} /\ EdgeIdx(ms, b, m) # {}}

(* the rows left by WHERE meeting_count >= $min_co_occurrences *)
InferRows(es, ms, user_id, min_co_occurrences) ==
    {pair \in (DOMAIN es) \X (DOMAIN es) :
        /\ es[pair[1]].label = "Person" /\ es[pair[1]].user_id = user_id
        /\ es[pair[2]].label = "Person"
        /\ IdLess(pair[1], pair[2])
        /\ es[pair[1]].user_id = es[pair[2]].user_id
        /\ SharedMeetings(ms, pair[1], pair[2]) # {}
        /\ Cardinality(SharedMeetings(ms, pair[1], pair[2])) >= min_co_occurrences}

(***************************************************************************)
(* get_co_occurrences: the pairs e1.id < e2.id of one owner's entities     *)
(* with count(DISTINCT m) >= $min_meetings, ORDER BY shared_meetings DESC  *)
(* (rows of equal count in any order), LIMIT $limit.                       *)
(***************************************************************************)
(* WHERE e1.id <> e2.id in place of e1.id < e2.id *)
CoOccurrenceRows_both_orders(es, ms, user_id, min_meetings) ==
    {[entity1 |-> es[pair[1]], entity2 |-> es[pair[2]],
      shared_meetings |-> Cardinality(SharedMeetings(ms, pair[1], pair[2]))] :
        pair \in {p \in (DOMAIN es) \X (DOMAIN es) :
                    /\ es[p[1]].user_id = user_id
                    /\ p[1] # p[2]
                    /\ es[p[1]].user_id = es[p[2]].user_id
                    /\ SharedMeetings(ms, p[1], p[2]) # {}
                    /\ Cardinality(SharedMeetings(ms, p[1], p[2])) >= min_meetings}}

CoOccurrenceRows(es, ms, user_id, min_meetings) ==
    {[entity1 |-> es[pair[1]], entity2 |-> es[pair[2]],
      shared_meetings |-> Cardinality(SharedMeetings(ms, pair[1], pair[2]))] :
        pair \in {p \in (DOMAIN es) \X (DOMAIN es) :
                    /\ es[p[1]].user_id = user_id
                    /\ IdLess(p[1], p[2])
                    /\ es[p[1]].user_id = es[p[2]].user_id
                    /\ SharedMeetings(ms, p[1], p[2]) # {}
                    /\ Cardinality(SharedMeetings(ms, p[1], p[2])) >= min_meetings}}

(* the orders ORDER BY shared_meetings DESC can give the rows *)
OrderByDesc(rows) ==
    {order \in [1..Cardinality(rows) -> rows] :
        /\ \A row \in rows : \E i \in DOMAIN order : order[i] = row
        /\ \A i \in DOMAIN order, j \in DOMAIN order :
              i < j => order[i].shared_meetings >= order[j].shared_meetings}

Limit(order, limit) ==
    SubSeq(order, 1, IF limit < Len(order) THEN limit ELSE Len(order))

CollabIdx(rs, a, b) ==
    {i \in 1..Len(rs) :
        rs[i].from = a /\ rs[i].to = b /\ rs[i].type = "COLLABORATES_WITH"}

(* SET on a property map: the named properties replaced or added *)
SetProps(props, upd) ==
    [k \in DOMAIN props \cup DOMAIN upd |->
        IF k \in DOMAIN upd THEN upd[k] ELSE props[k]]

InferOnCreate(meeting_count) ==
    [strength |-> meeting_count, source |-> "inferred", created_at |-> "now"]

(* ON MATCH adding to the stored strength *)
InferOnMatch_add(props, meeting_count) ==
    SetProps(props, [strength |-> (IF "strength" \in DOMAIN props
                                   THEN props.strength ELSE 0) + meeting_count,
                     updated_at |-> "now"])

InferOnMatch(props, meeting_count) ==
    SetProps(props, [strength |-> meeting_count, updated_at |-> "now"])

(* the pairs in the order their rows are processed *)
PairSeq ==
    <<<<"e1", "e2">>, <<"e1", "e3">>, <<"e1", "e4">>,
      <<"e2", "e3">>, <<"e2", "e4">>, <<"e3", "e4">>>>

InferMatched(rs, ms, rows) ==
    [i \in 1..Len(rs) |->
        IF rs[i].type = "COLLABORATES_WITH" /\ <<rs[i].from, rs[i].to>> \in rows
        THEN [rs[i] EXCEPT !.props =
                 InferOnMatch(@, Cardinality(SharedMeetings(ms, rs[i].from, rs[i].to)))]
        ELSE rs[i]]

RECURSIVE InferCreated(_, _, _, _)
InferCreated(rs, ms, rows, pairs) ==
    IF pairs = <<>> THEN <<>>
    ELSE LET pair == Head(pairs) IN
         (IF pair \in rows /\ CollabIdx(rs, pair[1], pair[2]) = {}
          THEN <<[from |-> pair[1], to |-> pair[2], type |-> "COLLABORATES_WITH",
                  props |-> InferOnCreate(
                                Cardinality(SharedMeetings(ms, pair[1], pair[2])))]>>
          ELSE <<>>) \o InferCreated(rs, ms, rows, Tail(pairs))

InferStore(es, ms, rs, user_id, min_co_occurrences) ==
    LET rows == InferRows(es, ms, user_id, min_co_occurrences) IN
    InferMatched(rs, ms, rows) \o InferCreated(rs, ms, rows, PairSeq)

(* RETURN count(r): one per edge merged, 0 when no pair qualifies *)
InferCount(es, ms, rs, user_id, min_co_occurrences) ==
    LET rows == InferRows(es, ms, user_id, min_co_occurrences) IN
    Cardinality({i \in 1..Len(rs) :
                    rs[i].type = "COLLABORATES_WITH" /\ <<rs[i].from, rs[i].to>> \in rows})
    + Cardinality({pair \in rows : CollabIdx(rs, pair[1], pair[2]) = {}})

(***************************************************************************)
(* The graph the traversals walk: every edge of the store, relationship    *)
(* or MENTIONED_IN, between Entity and Meeting nodes.                      *)
(***************************************************************************)
GraphEdges(ms, rs) ==
    {[kind |-> "rel", idx |-> i, from |-> rs[i].from, to |-> rs[i].to,
      type |-> rs[i].type] : i \in 1..Len(rs)}
    \cup {[kind |-> "mention", idx |-> i, from |-> ms[i].entity, to |-> ms[i].meeting,
           type |-> "MENTIONED_IN"] : i \in 1..Len(ms)}

Touches(e, n) == e.from = n \/ e.to = n
OtherEnd(e, n) == IF e.from = n THEN e.to ELSE e.from
EndOf(path) == path.nodes[Len(path.nodes)]

(* -[*n]- : the paths of n edges from start, taken in either direction, no *)
(* edge walked twice                                                       *)
RECURSIVE PathsOfLength(_, _, _)
PathsOfLength(E, start, n) ==
    IF n = 0 THEN {[nodes |-> <<start>>, edges |-> <<>>]}
    ELSE {[nodes |-> Append(p.nodes, OtherEnd(e, EndOf(p))),
           edges |-> Append(p.edges, e)] :
             <<p, e>> \in {pe \in PathsOfLength(E, start, n - 1) \X E :
                              /\ Touches(pe[2], EndOf(pe[1]))
                              /\ pe[2] \notin Range(pe[1].edges)}}

(* -[*1..hops]- *)
PathsUpTo(E, start, hops) == UNION {PathsOfLength(E, start, n) : n \in 1..hops}

(* MATCH (start:Entity {id: $entity_id, user_id: $user_id}) *)
MatchEntity(es, entity_id, user_id) ==
    entity_id \in DOMAIN es /\ es[entity_id].user_id = user_id

(***************************************************************************)
(* get_entity_graph: apoc.path.subgraphAll, or the basic traversal when    *)
(* the procedure is missing or returned nothing.                           *)
(***************************************************************************)
ApocRelationshipFilter ==
    {"MENTIONED_IN", "WORKS_AT", "MANAGES", "COLLABORATES_WITH", "USES",
     "RELATED_TO", "ASSIGNED_TO"}

EmptyGraph == [nodes |-> {}, relationships |-> {}]

(* subgraphAll: the nodes within maxLevel hops over the filtered           *)
(* relationship types and the relationships among them; nodes are given    *)
(* as the set of the list returned                                         *)
ApocSubgraph(ms, rs, start, depth) ==
    LET E == {e \in GraphEdges(ms, rs) : e.type \in ApocRelationshipFilter}
        nodes == {start} \cup {EndOf(p) : p \in PathsUpTo(E, start, depth)}
    IN [nodes |-> nodes,
        relationships |-> {e \in GraphEdges(ms, rs) : e.from \in nodes /\ e.to \in nodes}]

(* OPTIONAL MATCH path = (start)-[*1..depth]-(connected) *)
BasicTraversal(ms, rs, start, depth) ==
    LET paths == PathsUpTo(GraphEdges(ms, rs), start, depth)
    IN [nodes |-> {start} \cup {EndOf(p) : p \in paths},
        relationships |-> UNION {Range(p.edges) : p \in paths}]

GetEntityGraph(es, ms, rs, ap, entity_id, user_id, depth) ==
    IF ~MatchEntity(es, entity_id, user_id) THEN EmptyGraph
    ELSE IF ap THEN ApocSubgraph(ms, rs, entity_id, depth)
         ELSE BasicTraversal(ms, rs, entity_id, depth)

(***************************************************************************)
(* get_entity: MATCH e, OPTIONAL MATCH its MENTIONED_IN edges, OPTIONAL    *)
(* MATCH (e)-[r]->(related:Entity), each collected DISTINCT as a map.  A   *)
(* property map is held in a one-element tuple, null being the empty one.  *)
(***************************************************************************)
(* collect(DISTINCT {meeting: meeting, mention: properties(m)}) *)
EntityMentionMaps(ms, entity_id) ==
    IF \A i \in 1..Len(ms) : ms[i].entity # entity_id
    THEN {[meeting |-> "null", mention |-> <<>>]}
    ELSE {[meeting |-> ms[i].meeting,
           mention |-> <<[f \in DOMAIN ms[i] \ {"entity", "meeting"} |-> ms[i][f]]>>] :
             i \in {j \in 1..Len(ms) : ms[j].entity = entity_id}}

(* the edges (e)-[r]->(related:Entity) WHERE type(r) <> 'MENTIONED_IN' *)
RelatedIdx(es, rs, entity_id) ==
    {i \in 1..Len(rs) :
        rs[i].from = entity_id /\ rs[i].to \in DOMAIN es /\ rs[i].type # "MENTIONED_IN"}

(* collect(DISTINCT {entity: related, rel: type(r), props: properties(r)}) *)
EntityRelationshipMaps(es, rs, entity_id) ==
    IF RelatedIdx(es, rs, entity_id) = {}
    THEN {[entity |-> "null", rel |-> "null", props |-> <<>>]}
    ELSE {[entity |-> rs[i].to, rel |-> rs[i].type, props |-> <<rs[i].props>>] :
             i \in RelatedIdx(es, rs, entity_id)}

(* the dict returned, <<>> standing for None *)
GetEntity(es, ms, rs, entity_id, user_id) ==
    IF MatchEntity(es, entity_id, user_id)
    THEN <<[entity |-> es[entity_id],
            mentions |-> EntityMentionMaps(ms, entity_id),
            relationships |-> EntityRelationshipMaps(es, rs, entity_id)]>>
    ELSE <<>>

(***************************************************************************)
(* find_connections: MATCH a, MATCH b, shortestPath((a)-[*1..max_hops]-(b)) *)
(* LIMIT 5.                                                                *)
(***************************************************************************)
PathsBetween(ms, rs, a, b, max_hops) ==
    {p \in PathsUpTo(GraphEdges(ms, rs), a, max_hops) : EndOf(p) = b}

(* any path within the hop bound taken for a shortest one *)
ShortestPaths_any(ms, rs, a, b, max_hops) == PathsBetween(ms, rs, a, b, max_hops)

(* the paths shortestPath may return: those of the fewest edges *)
ShortestPaths(ms, rs, a, b, max_hops) ==
    {p \in PathsBetween(ms, rs, a, b, max_hops) :
        \A q \in PathsBetween(ms, rs, a, b, max_hops) : Len(p.edges) <= Len(q.edges)}

FindMatched(es, id1, id2, user_id) ==
    MatchEntity(es, id1, user_id) /\ MatchEntity(es, id2, user_id)

(* shortestPath refuses a row whose start and end are the same node when   *)
(* the store runs with cypher.forbid_shortestpath_common_nodes (its        *)
(* default): the statement fails and run_query raises                      *)
FindRaises(es, id1, id2, user_id, forbid_common_nodes) ==
    FindMatched(es, id1, id2, user_id) /\ id1 = id2 /\ forbid_common_nodes

(* the rows of the statement: shortestPath yields one path per (a, b) *)
FindRows(es, ms, rs, id1, id2, user_id, max_hops) ==
    IF FindMatched(es, id1, id2, user_id) /\ id1 # id2
    THEN {<<[nodes |-> p.nodes, relationships |-> p.edges]>> :
            p \in ShortestPaths(ms, rs, id1, id2, max_hops)}
    ELSE {}

(***************************************************************************)
(* get_entity_relationships: the edges of e other than MENTIONED_IN, by    *)
(* direction, each with the node at its other end.                         *)
(***************************************************************************)
(* MATCH (e)-[r]->(target), (source)-[r]->(e) or (e)-[r]-(connected) *)
DirectionIdx(rs, entity_id, direction) ==
    {i \in 1..Len(rs) :
        \/ direction # "incoming" /\ rs[i].from = entity_id
        \/ direction # "outgoing" /\ rs[i].to = entity_id}

GetEntityRelationships(es, rs, entity_id, user_id, direction) ==
    IF ~MatchEntity(es, entity_id, user_id) THEN {}
    ELSE {[entity |-> es[OtherEnd(rs[i], entity_id)],
           relationship_type |-> rs[i].type,
           properties |-> rs[i].props,
           direction |-> IF direction = "both"
                         THEN IF rs[i].from = entity_id THEN "outgoing" ELSE "incoming"
                         ELSE direction] :
            i \in DirectionIdx(rs, entity_id, direction)}

(***************************************************************************)
(* History kept for the statements of the claims (no call reads it).       *)
(***************************************************************************)
Labels == {Capitalize(t) : t \in EntityType}
NormalizedValues == {Lower(v) : v \in RawValues}
Keys == Users \X Labels \X NormalizedValues

KeyOfInput(ent) == <<ent.user_id, Capitalize(ent.type), Lower(ent.normalized_value)>>
KeyOf(e) == <<e.user_id, e.label, e.normalized_value>>

AppliedAfter(ap, ent, result) ==
    IF result = "raised" THEN ap
    ELSE [ap EXCEPT ![KeyOfInput(ent)] = @ + ent.mention_count]

CreditAfterMention(cr, mention) ==
    [cr EXCEPT ![<<mention.entity_id, mention.meeting_id>>].own = @ + mention.mention_count]

(* the deltas credited to merge's pairs move to keep's pairs *)
CreditAfterMerge(cr, keep_id, merge_id) ==
    [p \in DOMAIN cr |->
        IF p[1] = merge_id THEN [own |-> 0, absorbed |-> 0]
        ELSE IF p[1] = keep_id
             THEN [cr[p] EXCEPT !.absorbed = @ + cr[<<merge_id, p[2]>>].own
                                               + cr[<<merge_id, p[2]>>].absorbed]
             ELSE cr[p]]

(***************************************************************************)
(* The calls, each one auto-commit statement (Neo4jClient.run_query).      *)
(***************************************************************************)
Idle == pc = [p \in Procs |-> "idle"] /\ tx.state = "none"

upsert_entity(ent) ==
    /\ Idle /\ ops < MaxOps
    /\ entities' = UpsertStore(entities, ent)
    /\ \E returned \in run_single_query(UpsertRows(entities, ent)) :
          last' = [op |-> "upsert_entity", args |-> ent,
                   res |-> UpsertResult(entities, ent), returned |-> returned]
    /\ applied' = AppliedAfter(applied, ent, UpsertResult(entities, ent))
    /\ ops' = ops + 1
    /\ UNCHANGED <<meetings, mentions, rels, apoc, credit, pc, req, tx>>

update_entity(entity_id, user_id, updates) ==
    /\ Idle /\ ops < MaxOps
    /\ entities' = UpdateStore(entities, entity_id, user_id, updates)
    /\ \E returned \in run_single_query(UpdateRows(entities, entity_id, user_id, updates)) :
          last' = [op |-> "update_entity",
                   args |-> [entity_id |-> entity_id, user_id |-> user_id,
                             updates |-> updates],
                   res |-> returned]
    /\ ops' = ops + 1
    /\ UNCHANGED <<meetings, mentions, rels, apoc, credit, applied, pc, req, tx>>

add_mention(mention) ==
    /\ Idle /\ ops < MaxOps
    /\ mentions' = AddMentionStore(entities, meetings, mentions, mention)
    /\ last' = [op |-> "add_mention", args |-> mention,
                res |-> MentionEndpoints(entities, meetings, mention)]
    /\ credit' = IF MentionEndpoints(entities, meetings, mention)
                 THEN CreditAfterMention(credit, mention)
                 ELSE credit
    /\ ops' = ops + 1
    /\ UNCHANGED <<entities, meetings, rels, apoc, applied, pc, req, tx>>

merge_entities(user_id, keep_id, merge_id) ==
    /\ Idle /\ ops < MaxOps
    /\ entities' = MergeEntitiesOf(entities, mentions, user_id, keep_id, merge_id)
    /\ mentions' = MergeMentionsOf(entities, mentions, user_id, keep_id, merge_id)
    /\ rels' = MergeRelsOf(entities, mentions, rels, user_id, keep_id, merge_id)
    /\ last' = [op |-> "merge_entities",
                args |-> [user_id |-> user_id, keep_id |-> keep_id, merge_id |-> merge_id],
                res |-> MergeReturns(entities, mentions, user_id, keep_id, merge_id)]
    /\ credit' = IF MergeReturns(entities, mentions, user_id, keep_id, merge_id)
                 THEN CreditAfterMerge(credit, keep_id, merge_id)
                 ELSE credit
    /\ ops' = ops + 1
    /\ UNCHANGED <<meetings, apoc, applied, pc, req, tx>>

create_relationship(rel) ==
    /\ Idle /\ ops < MaxOps
    /\ rels' = CreateRelationshipStore(entities, rels, apoc, rel)
    /\ last' = [op |-> "create_relationship", args |-> rel, res |-> RelEndpoints(entities, rel)]
    /\ ops' = ops + 1
    /\ UNCHANGED <<entities, meetings, mentions, apoc, credit, applied, pc, req, tx>>

delete_relationship(from_entity_id, to_entity_id, relationship_type, user_id) ==
    /\ Idle /\ ops < MaxOps
    /\ LET r == DeleteRelMatch(entities, rels, from_entity_id, to_entity_id,
                               relationship_type, user_id)
       IN /\ rels' = Without(rels, r)
          /\ last' = [op |-> "delete_relationship",
                      args |-> [from_entity_id |-> from_entity_id,
                                to_entity_id |-> to_entity_id,
                                relationship_type |-> relationship_type,
                                user_id |-> user_id],
                      res |-> Cardinality(r) > 0]
    /\ ops' = ops + 1
    /\ UNCHANGED <<entities, meetings, mentions, apoc, credit, applied, pc, req, tx>>

delete_entity(entity_id, user_id) ==
    /\ Idle /\ ops < MaxOps
    /\ LET e == DeleteEntityMatch(entities, entity_id, user_id)
       IN /\ entities' = [i \in DOMAIN entities \ e |-> entities[i]]
          /\ mentions' = SelectSeq(mentions, LAMBDA r : r.entity \notin e)
          /\ rels' = SelectSeq(rels, LAMBDA r : r.from \notin e /\ r.to \notin e)
          /\ last' = [op |-> "delete_entity",
                      args |-> [entity_id |-> entity_id, user_id |-> user_id],
                      res |-> Cardinality(e) > 0]
    /\ ops' = ops + 1
    /\ UNCHANGED <<meetings, apoc, credit, applied, pc, req, tx>>

get_co_occurrences(user_id, min_meetings, limit) ==
    /\ Idle /\ ops < MaxOps
    /\ \E order \in OrderByDesc(CoOccurrenceRows(entities, mentions, user_id, min_meetings)) :
          last' = [op |-> "get_co_occurrences",
                   args |-> [user_id |-> user_id, min_meetings |-> min_meetings,
                             limit |-> limit],
                   res |-> Limit(order, limit)]
    /\ ops' = ops + 1
    /\ UNCHANGED <<entities, meetings, mentions, rels, apoc, credit, applied, pc, req, tx>>

infer_collaborations(user_id, min_co_occurrences) ==
    /\ Idle /\ ops < MaxOps
    /\ rels' = InferStore(entities, mentions, rels, user_id, min_co_occurrences)
    /\ last' = [op |-> "infer_collaborations",
                args |-> [user_id |-> user_id, min_co_occurrences |-> min_co_occurrences],
                res |-> InferCount(entities, mentions, rels, user_id, min_co_occurrences)]
    /\ ops' = ops + 1
    /\ UNCHANGED <<entities, meetings, mentions, apoc, credit, applied, pc, req, tx>>

get_entity_graph(entity_id, user_id, depth) ==
    /\ Idle /\ ops < MaxOps
    /\ last' = [op |-> "get_entity_graph",
                args |-> [entity_id |-> entity_id, user_id |-> user_id, depth |-> depth],
                res |-> GetEntityGraph(entities, mentions, rels, apoc,
                                       entity_id, user_id, depth)]
    /\ ops' = ops + 1
    /\ UNCHANGED <<entities, meetings, mentions, rels, apoc, credit, applied, pc, req, tx>>

find_connections(entity_id_1, entity_id_2, user_id, max_hops) ==
    /\ Idle /\ ops < MaxOps
    /\ LET args == [entity_id_1 |-> entity_id_1, entity_id_2 |-> entity_id_2,
                    user_id |-> user_id, max_hops |-> max_hops]
           rows == FindRows(entities, mentions, rels,
                            entity_id_1, entity_id_2, user_id, max_hops)
       IN \E forbid_common_nodes \in BOOLEAN :
            IF FindRaises(entities, entity_id_1, entity_id_2, user_id, forbid_common_nodes)
            THEN last' = [op |-> "find_connections", args |-> args,
                          res |-> <<>>, raised |-> TRUE]
            ELSE IF rows = {}
                 THEN last' = [op |-> "find_connections", args |-> args, res |-> <<>>]
                 ELSE \E row \in rows :
                        last' = [op |-> "find_connections", args |-> args, res |-> row]
    /\ ops' = ops + 1
    /\ UNCHANGED <<entities, meetings, mentions, rels, apoc, credit, applied, pc, req, tx>>

get_entity_relationships(entity_id, user_id, direction) ==
    /\ Idle /\ ops < MaxOps
    /\ last' = [op |-> "get_entity_relationships",
                args |-> [entity_id |-> entity_id, user_id |-> user_id,
                          direction |-> direction],
                res |-> GetEntityRelationships(entities, rels, entity_id, user_id, direction)]
    /\ ops' = ops + 1
    /\ UNCHANGED <<entities, meetings, mentions, rels, apoc, credit, applied, pc, req, tx>>

get_entity(entity_id, user_id) ==
    /\ Idle /\ ops < MaxOps
    /\ last' = [op |-> "get_entity",
                args |-> [entity_id |-> entity_id, user_id |-> user_id],
                res |-> GetEntity(entities, mentions, rels, entity_id, user_id)]
    /\ ops' = ops + 1
    /\ UNCHANGED <<entities, meetings, mentions, rels, apoc, credit, applied, pc, req, tx>>

(***************************************************************************)
(* The store after schema setup and the migration of two meetings; no      *)
(* entity yet.                                                             *)
(***************************************************************************)
NoTx == [state |-> "none"]

Init ==
    /\ entities = <<>>
    /\ meetings = [m \in MeetingIds |-> [user_id |-> "u1"]]
    /\ mentions = <<>>
    /\ rels = <<>>
    /\ apoc \in BOOLEAN
    /\ last = [op |-> "none"]
    /\ credit = [p \in (EntityIds \X MeetingIds) |-> [own |-> 0, absorbed |-> 0]]
    /\ applied = [k \in Keys |-> 0]
    /\ ops = 0
    /\ pc = [p \in Procs |-> "idle"]
    /\ req = [p \in Procs |-> "none"]
    /\ tx = NoTx

(***************************************************************************)
(* Spec: entities of two owners, their mentions and merges.                *)
(***************************************************************************)
EntityInputs ==
    {Entity(given) : given \in
    [id : {"e1", "e2"}, user_id : Users, type : {"person"},
     normalized_value : {"Bob", "rob"}, aliases : {<<>>},
     mention_count : {1}, display_value : {"Bob"},
     first_seen : {1}, last_seen : {1}]}

MentionInputs ==
    {EntityMention(given) : given \in
    [entity_id : {"e1", "e2"}, meeting_id : MeetingIds \cup {NoMeeting},
     mention_count : {1, 2}, context : {"c1"}]}

Next ==
    \/ \E ent \in EntityInputs : upsert_entity(ent)
    \/ \E mention \in MentionInputs : add_mention(mention)
    \/ \E u \in Users, k \in {"e1", "e2"}, m \in {"e1", "e2"} : merge_entities(u, k, m)

Spec == Init /\ [][Next]_vars

(***************************************************************************)
(* SpecAlias: one owner's entities carrying alias lists.                   *)
(***************************************************************************)
AliasEntityInputs ==
    {Entity(given) : given \in
    [id : {"e1", "e2"}, user_id : {"u1"}, type : {"person"},
     normalized_value : {"Bob", "rob"}, aliases : {<<>>, <<"bob">>},
     mention_count : {1}, display_value : {"Bob"},
     first_seen : {1}, last_seen : {1}]}

AliasMentionInputs ==
    {EntityMention(given) : given \in
    [entity_id : {"e1", "e2"}, meeting_id : MeetingIds,
     mention_count : {1}, context : {"c1"}]}

NextAlias ==
    \/ \E ent \in AliasEntityInputs : upsert_entity(ent)
    \/ \E mention \in AliasMentionInputs : add_mention(mention)
    \/ \E k \in {"e1", "e2"}, m \in {"e1", "e2"} : merge_entities("u1", k, m)

SpecAlias == Init /\ [][NextAlias]_vars

(***************************************************************************)
(* SpecRel: a person and an organization and the relationships created     *)
(* between them.                                                           *)
(***************************************************************************)
RelEntityInputs ==
    {Entity(given) : given \in
    [id : {"e1", "e2"}, user_id : {"u1"}, type : EntityType,
     normalized_value : {"Bob"}, aliases : {<<>>},
     mention_count : {1}, display_value : {"Bob"},
     first_seen : {1}, last_seen : {1}]}

RelInputs ==
    [from_entity_id : {"e1", "e2"}, to_entity_id : {"e1", "e2"},
     relationship_type : {"WORKS_AT", "USES"},
     confidence : {50, 100}, source : {"ai"}, properties : {{"role"}}]

NextRel ==
    \/ \E ent \in RelEntityInputs : upsert_entity(ent)
    \/ \E rel \in RelInputs : create_relationship(rel)

SpecRel == Init /\ [][NextRel]_vars

(***************************************************************************)
(* SpecRace: upsert_entity called by concurrent clients.  The schema       *)
(* (setup_schema.py SCHEMA_QUERIES) holds no uniqueness constraint on      *)
(* (user_id, normalized_value), only on id, so the MERGE of a node is a    *)
(* match followed by a create: two statements that both match nothing      *)
(* both go on to create.                                                   *)
(***************************************************************************)
upsert_match(p, ent) ==
    /\ tx.state = "none" /\ pc[p] = "idle" /\ ops < MaxOps
    /\ ops' = ops + 1
    /\ IF MergeMatch(entities, ent) # {}
       THEN /\ entities' = MatchedStore(entities, ent)
            /\ last' = [op |-> "upsert_entity", args |-> ent, res |-> "matched"]
            /\ applied' = AppliedAfter(applied, ent, "matched")
            /\ UNCHANGED <<pc, req>>
       ELSE /\ pc' = [pc EXCEPT ![p] = "create"]
            /\ req' = [req EXCEPT ![p] = ent]
            /\ UNCHANGED <<entities, last, applied>>
    /\ UNCHANGED <<meetings, mentions, rels, apoc, credit, tx>>

upsert_create(p) ==
    /\ pc[p] = "create"
    /\ entities' = CreatedStore(entities, req[p])
    /\ last' = [op |-> "upsert_entity", args |-> req[p],
                res |-> CreateResult(entities, req[p])]
    /\ applied' = AppliedAfter(applied, req[p], CreateResult(entities, req[p]))
    /\ pc' = [pc EXCEPT ![p] = "idle"]
    /\ req' = [req EXCEPT ![p] = "none"]
    /\ UNCHANGED <<meetings, mentions, rels, apoc, credit, ops, tx>>

RaceEntityInputs ==
    {Entity(given) : given \in
    [id : {"e1", "e2"}, user_id : {"u1"}, type : {"person"},
     normalized_value : {"Bob", "bob"}, aliases : {<<>>},
     mention_count : {1, 2}, display_value : {"Bob"},
     first_seen : {1}, last_seen : {1}]}

NextRace ==
    \/ \E p \in Procs, ent \in RaceEntityInputs : upsert_match(p, ent)
    \/ \E p \in Procs : upsert_create(p)

SpecRace == Init /\ [][NextRace]_vars

(***************************************************************************)
(* SpecMergeTx: merge_entities clause by clause inside the transaction     *)
(* session.run opens for the statement.  The clauses write to the          *)
(* transaction's own state; the store other sessions read changes at       *)
(* commit only, and a failure before it discards the writes.               *)
(***************************************************************************)
Visible_dirty(committed, uncommitted) == uncommitted

(* what other sessions see of a write the transaction has not committed *)
Visible(committed, uncommitted) == committed

merge_begin(user_id, keep_id, merge_id) ==
    /\ Idle /\ ops < MaxOps
    /\ tx' = [state |-> "transfer",
              args |-> [user_id |-> user_id, keep_id |-> keep_id, merge_id |-> merge_id],
              entities |-> entities, mentions |-> mentions, rels |-> rels,
              rows |-> MergeRows(entities, mentions, user_id, keep_id, merge_id)]
    /\ ops' = ops + 1
    /\ UNCHANGED <<entities, meetings, mentions, rels, apoc, last, credit, applied, pc, req>>

merge_transfer ==
    /\ tx.state = "transfer"
    /\ LET ms == TransferMentions(tx.mentions, tx.args.keep_id, tx.rows) IN
          /\ tx' = [tx EXCEPT !.state = "update", !.mentions = ms]
          /\ mentions' = Visible(mentions, ms)
    /\ UNCHANGED <<entities, meetings, rels, apoc, last, credit, applied, ops, pc, req>>

merge_update ==
    /\ tx.state = "update"
    /\ LET es == UpdateKeep(tx.entities, tx.args.keep_id, tx.args.merge_id, Len(tx.rows)) IN
          /\ tx' = [tx EXCEPT !.state = "delete", !.entities = es]
          /\ entities' = Visible(entities, es)
    /\ UNCHANGED <<meetings, mentions, rels, apoc, last, credit, applied, ops, pc, req>>

merge_delete ==
    /\ tx.state = "delete"
    /\ LET gone == tx.rows # <<>>
           es == IF gone THEN DeleteNode(tx.entities, tx.args.merge_id) ELSE tx.entities
           ms == IF gone THEN DetachMentions(tx.mentions, tx.args.merge_id) ELSE tx.mentions
           rs == IF gone THEN DetachRels(tx.rels, tx.args.merge_id) ELSE tx.rels
       IN /\ tx' = [tx EXCEPT !.state = "commit", !.entities = es,
                              !.mentions = ms, !.rels = rs]
          /\ entities' = Visible(entities, es)
          /\ mentions' = Visible(mentions, ms)
          /\ rels' = Visible(rels, rs)
    /\ UNCHANGED <<meetings, apoc, last, credit, applied, ops, pc, req>>

merge_commit ==
    /\ tx.state = "commit"
    /\ entities' = tx.entities
    /\ mentions' = tx.mentions
    /\ rels' = tx.rels
    /\ last' = [op |-> "merge_entities", args |-> tx.args, res |-> tx.rows # <<>>]
    /\ credit' = IF tx.rows # <<>>
                 THEN CreditAfterMerge(credit, tx.args.keep_id, tx.args.merge_id)
                 ELSE credit
    /\ tx' = NoTx
    /\ UNCHANGED <<meetings, apoc, applied, ops, pc, req>>

(* a timeout, a lost connection or an error before the commit: session.run *)
(* raises and the transaction is rolled back                               *)
merge_fail ==
    /\ tx.state \in {"transfer", "update", "delete", "commit"}
    /\ last' = [op |-> "merge_entities", args |-> tx.args, res |-> FALSE,
                raised |-> TRUE, at |-> tx.state]
    /\ tx' = NoTx
    /\ UNCHANGED <<entities, meetings, mentions, rels, apoc, credit, applied, ops, pc, req>>

TxEntityInputs ==
    {Entity(given) : given \in
    [id : {"e1", "e2"}, user_id : {"u1"}, type : {"person"},
     normalized_value : {"Bob", "rob"}, aliases : {<<>>},
     mention_count : {1}, display_value : {"Bob"},
     first_seen : {1}, last_seen : {1}]}

TxMentionInputs ==
    {EntityMention(given) : given \in
    [entity_id : {"e1", "e2"}, meeting_id : MeetingIds,
     mention_count : {1, 2}, context : {"c1"}]}

NextMergeTx ==
    \/ \E ent \in TxEntityInputs : upsert_entity(ent)
    \/ \E mention \in TxMentionInputs : add_mention(mention)
    \/ \E k \in {"e1", "e2"}, m \in {"e1", "e2"} : merge_begin("u1", k, m)
    \/ merge_transfer
    \/ merge_update
    \/ merge_delete
    \/ merge_commit
    \/ merge_fail

SpecMergeTx == Init /\ [][NextMergeTx]_vars

(***************************************************************************)
(* SpecSeen: one owner's entities upserted with alias lists and last_seen  *)
(* timestamps arriving in any order.                                       *)
(***************************************************************************)
SeenEntityInputs ==
    {Entity(given) : given \in
    [id : {"e1", "e2"}, user_id : {"u1"}, type : {"person"},
     normalized_value : {"Bob", "rob"}, aliases : {<<>>, <<"bob">>, <<"bob", "bob">>},
     mention_count : {1}, display_value : {"Bob"},
     first_seen : {1}, last_seen : {1, 2}]}

NextSeen == \E ent \in SeenEntityInputs : upsert_entity(ent)

SpecSeen == Init /\ [][NextSeen]_vars

(***************************************************************************)
(* Stores already holding entities and mentions: the store left by         *)
(* upsert_entity called on a list of entities and add_mention then called  *)
(* on a list of mentions of theirs.                                        *)
(***************************************************************************)
Front(seq) == SubSeq(seq, 1, Len(seq) - 1)

RECURSIVE SeedEntities(_)
SeedEntities(ents) ==
    IF ents = <<>> THEN <<>>
    ELSE UpsertStore(SeedEntities(Front(ents)), ents[Len(ents)])

RECURSIVE SeedApplied(_)
SeedApplied(ents) ==
    IF ents = <<>> THEN [k \in Keys |-> 0]
    ELSE AppliedAfter(SeedApplied(Front(ents)), ents[Len(ents)],
                      UpsertResult(SeedEntities(Front(ents)), ents[Len(ents)]))

RECURSIVE SeedMentions(_)
SeedMentions(ments) ==
    IF ments = <<>> THEN <<>>
    ELSE MergeMention(SeedMentions(Front(ments)), ments[Len(ments)])

RECURSIVE SeedCredit(_)
SeedCredit(ments) ==
    IF ments = <<>> THEN [p \in (EntityIds \X MeetingIds) |-> [own |-> 0, absorbed |-> 0]]
    ELSE CreditAfterMention(SeedCredit(Front(ments)), ments[Len(ments)])

SeedEntity(id, user_id, type, normalized_value) ==
    Entity([id |-> id, user_id |-> user_id, type |-> type,
            normalized_value |-> normalized_value, display_value |-> "Bob",
            first_seen |-> 1, last_seen |-> 1])

SeedMention(entity_id, meeting_id) ==
    EntityMention([entity_id |-> entity_id, meeting_id |-> meeting_id, context |-> "c1"])

InitSeeded(ents, ments) ==
    /\ entities = SeedEntities(ents)
    /\ meetings = [m \in MeetingIds |-> [user_id |-> "u1"]]
    /\ mentions = SeedMentions(ments)
    /\ rels = <<>>
    /\ apoc \in BOOLEAN
    /\ last = [op |-> "none"]
    /\ credit = SeedCredit(ments)
    /\ applied = SeedApplied(ents)
    /\ ops = 0
    /\ pc = [p \in Procs |-> "idle"]
    /\ req = [p \in Procs |-> "none"]
    /\ tx = NoTx

(***************************************************************************)
(* SpecInfer: three persons of one owner and one of another, two of the    *)
(* owner's and the other's already sharing a meeting; mentions in a second *)
(* meeting are added, COLLABORATES_WITH edges are created by hand and      *)
(* inferred.                                                               *)
(***************************************************************************)
InferSeedEntities ==
    <<SeedEntity("e1", "u1", "person", "Bob"), SeedEntity("e2", "u1", "person", "rob"),
      SeedEntity("e3", "u1", "person", "ann"), SeedEntity("e4", "u2", "person", "Bob")>>

InferSeedMentions ==
    <<SeedMention("e1", "m1"), SeedMention("e2", "m1"), SeedMention("e4", "m1")>>

InitInfer == InitSeeded(InferSeedEntities, InferSeedMentions)

InferMentionInputs ==
    {EntityMention(given) : given \in
    [entity_id : {"e1", "e2", "e3"}, meeting_id : {"m2"},
     mention_count : {1}, context : {"c1"}]}

InferRelInputs ==
    {rel \in [from_entity_id : {"e1", "e2"}, to_entity_id : {"e1", "e2"},
              relationship_type : {"COLLABORATES_WITH"},
              confidence : {100}, source : {"user"}, properties : {{}}] :
        rel.from_entity_id # rel.to_entity_id}

Thresholds == {1, 2, 3}

NextInfer ==
    \/ \E mention \in InferMentionInputs : add_mention(mention)
    \/ \E rel \in InferRelInputs : create_relationship(rel)
    \/ \E u \in Users, t \in Thresholds : infer_collaborations(u, t)

SpecInfer == InitInfer /\ [][NextInfer]_vars

(***************************************************************************)
(* SpecGraph: four entities of one owner; relationships are created along  *)
(* and across e1 - e2 - e3 - e4, one meeting mentions e2, and e1, e2 and   *)
(* the graph around e1 are read.                                           *)
(***************************************************************************)
GraphSeedEntities ==
    <<SeedEntity("e1", "u1", "person", "Bob"), SeedEntity("e2", "u1", "person", "rob"),
      SeedEntity("e3", "u1", "person", "ann"), SeedEntity("e4", "u1", "organization", "Bob")>>

InitGraph == InitSeeded(GraphSeedEntities, <<>>)

GraphRel(from_entity_id, to_entity_id, relationship_type) ==
    [from_entity_id |-> from_entity_id, to_entity_id |-> to_entity_id,
     relationship_type |-> relationship_type,
     confidence |-> 100, source |-> "ai", properties |-> {}]

GraphRelInputs ==
    {GraphRel("e1", "e2", "COLLABORATES_WITH"), GraphRel("e1", "e2", "REPORTS_TO"),
     GraphRel("e3", "e2", "COLLABORATES_WITH"), GraphRel("e3", "e4", "WORKS_AT"),
     GraphRel("e4", "e1", "USES")}

GraphMentionInputs == {SeedMention("e2", "m1")}

Depths == {1, 2}

NextGraph ==
    \/ \E rel \in GraphRelInputs : create_relationship(rel)
    \/ \E mention \in GraphMentionInputs : add_mention(mention)
    \/ \E u \in Users, depth \in Depths : get_entity_graph("e1", u, depth)
    \/ \E e \in {"e1", "e2"}, u \in Users : get_entity(e, u)

SpecGraph == InitGraph /\ [][NextGraph]_vars

(***************************************************************************)
(* SpecPath: the four entities of SpecGraph, relationships around the      *)
(* cycle e1 - e2 - e3 - e4 - e1, and the connections looked for between    *)
(* e1 and e4, e1 and itself, e1 and an entity the store lacks.             *)
(***************************************************************************)
PathRelInputs ==
    {GraphRel("e1", "e2", "COLLABORATES_WITH"), GraphRel("e3", "e2", "COLLABORATES_WITH"),
     GraphRel("e3", "e4", "WORKS_AT"), GraphRel("e4", "e1", "USES")}

PathTargets == {"e4", "e1", NoEntity}

MaxHops == {1, 3}

NextPath ==
    \/ \E rel \in PathRelInputs : create_relationship(rel)
    \/ \E b \in PathTargets, u \in Users, max_hops \in MaxHops :
          find_connections("e1", b, u, max_hops)

SpecPath == InitGraph /\ [][NextPath]_vars

(***************************************************************************)
(* SpecMergeRace: merge_entities beside the statement of another client.   *)
(* Neo4j runs statements read-committed: the MATCH and collect clauses of  *)
(* the merge read without locking, its MERGE, SET and DETACH DELETE        *)
(* clauses lock what they write.  Nothing in EntityOperations serialises   *)
(* the calls, so another client's add_mention or upsert_entity can commit  *)
(* after the merge has collected merge's edges and before it writes.       *)
(***************************************************************************)
(* MATCH keep, MATCH merge, OPTIONAL MATCH .. collect: the rows are read *)
merge_read(user_id, keep_id, merge_id) ==
    /\ Idle /\ ops < MaxOps
    /\ tx' = [state |-> "read",
              args |-> [user_id |-> user_id, keep_id |-> keep_id, merge_id |-> merge_id],
              rows |-> MergeRows(entities, mentions, user_id, keep_id, merge_id),
              entities |-> entities, mentions |-> mentions, rels |-> rels,
              others |-> <<>>]
    /\ ops' = ops + 1
    /\ UNCHANGED <<entities, meetings, mentions, rels, apoc, last, credit, applied, pc, req>>

(* add_mention of another client, committed while the merge is in flight *)
concurrent_add_mention(mention) ==
    /\ tx.state = "read" /\ tx.others = <<>> /\ ops < MaxOps
    /\ mentions' = AddMentionStore(entities, meetings, mentions, mention)
    /\ tx' = [tx EXCEPT !.others =
                 <<[op |-> "add_mention", args |-> mention,
                    res |-> MentionEndpoints(entities, meetings, mention)]>>]
    /\ credit' = IF MentionEndpoints(entities, meetings, mention)
                 THEN CreditAfterMention(credit, mention)
                 ELSE credit
    /\ ops' = ops + 1
    /\ UNCHANGED <<entities, meetings, rels, apoc, last, applied, pc, req>>

(* upsert_entity of another client, committed while the merge is in flight *)
concurrent_upsert_entity(ent) ==
    /\ tx.state = "read" /\ tx.others = <<>> /\ ops < MaxOps
    /\ entities' = UpsertStore(entities, ent)
    /\ tx' = [tx EXCEPT !.others =
                 <<[op |-> "upsert_entity", args |-> ent,
                    res |-> UpsertResult(entities, ent)]>>]
    /\ applied' = AppliedAfter(applied, ent, UpsertResult(entities, ent))
    /\ ops' = ops + 1
    /\ UNCHANGED <<meetings, mentions, rels, apoc, last, credit, pc, req>>

(* MERGE per row collected, SET, DETACH DELETE, RETURN and the commit, on  *)
(* the store as the other clients have left it                             *)
merge_write ==
    /\ tx.state = "read"
    /\ IF tx.rows = <<>>
       THEN UNCHANGED <<entities, mentions, rels, credit>>
       ELSE /\ entities' = DeleteNode(UpdateKeep(entities, tx.args.keep_id,
                                                 tx.args.merge_id, Len(tx.rows)),
                                      tx.args.merge_id)
            /\ mentions' = DetachMentions(TransferMentions(mentions, tx.args.keep_id,
                                                           tx.rows),
                                          tx.args.merge_id)
            /\ rels' = DetachRels(rels, tx.args.merge_id)
            /\ credit' = CreditAfterMerge(credit, tx.args.keep_id, tx.args.merge_id)
    /\ last' = [op |-> "merge_entities", args |-> tx.args, res |-> tx.rows # <<>>,
                others |-> tx.others]
    /\ tx' = NoTx
    /\ UNCHANGED <<meetings, apoc, applied, ops, pc, req>>

RaceSeedEntities ==
    <<SeedEntity("e1", "u1", "person", "Bob"), SeedEntity("e2", "u1", "person", "rob")>>

RaceSeedMentions == <<SeedMention("e1", "m1")>>

InitMergeRace == InitSeeded(RaceSeedEntities, RaceSeedMentions)

NextMergeRace ==
    \/ \E mention \in TxMentionInputs : add_mention(mention)
    \/ \E k \in {"e1", "e2"}, m \in {"e1", "e2"} : merge_read("u1", k, m)
    \/ \E mention \in TxMentionInputs : concurrent_add_mention(mention)
    \/ \E ent \in TxEntityInputs : concurrent_upsert_entity(ent)
    \/ merge_write

SpecMergeRace == InitMergeRace /\ [][NextMergeRace]_vars

(***************************************************************************)
(* SpecMergeRel: three entities of one owner, one of them mentioned in a   *)
(* meeting; relationships are created between them and they are merged.    *)
(***************************************************************************)
MergeRelSeedEntities ==
    <<SeedEntity("e1", "u1", "person", "Bob"), SeedEntity("e2", "u1", "person", "rob"),
      SeedEntity("e3", "u1", "person", "ann")>>

InitMergeRel == InitSeeded(MergeRelSeedEntities, <<SeedMention("e1", "m1")>>)

MergeRelInputs ==
    {rel \in [from_entity_id : {"e1", "e2", "e3"}, to_entity_id : {"e1", "e2", "e3"},
              relationship_type : {"WORKS_AT"},
              confidence : {100}, source : {"ai"}, properties : {{}}] :
        rel.from_entity_id # rel.to_entity_id}

MergeRelMentionInputs == {SeedMention("e2", "m1"), SeedMention("e3", "m2")}

NextMergeRel ==
    \/ \E rel \in MergeRelInputs : create_relationship(rel)
    \/ \E mention \in MergeRelMentionInputs : add_mention(mention)
    \/ \E k \in {"e1", "e2", "e3"}, m \in {"e1", "e2", "e3"} : merge_entities("u1", k, m)

SpecMergeRel == InitMergeRel /\ [][NextMergeRel]_vars

(***************************************************************************)
(* SpecUpsert: upsert_entity alone, called with every field of Entity      *)
(* varied: two ids, two values, two delta, two last_seen, and two settings *)
(* of the other fields.                                                    *)
(***************************************************************************)
OtherFields ==
    {[display_value |-> "Bob", description |-> <<>>, confidence |-> 100, first_seen |-> 1,
      sentiment_avg |-> <<>>, is_user_created |-> FALSE, aliases |-> <<>>],
     [display_value |-> "Rob", description |-> <<"d1">>, confidence |-> 50, first_seen |-> 2,
      sentiment_avg |-> <<10>>, is_user_created |-> TRUE, aliases |-> <<"al">>]}

UpsertEntityInputs ==
    {Entity(given @@ other) :
        given \in [id : {"e1", "e2"}, user_id : {"u1"}, type : {"person"},
                   normalized_value : {"Bob", "rob"},
                   mention_count : {1, 2}, last_seen : {1, 2}],
        other \in OtherFields}

NextUpsert == \E ent \in UpsertEntityInputs : upsert_entity(ent)

SpecUpsert == Init /\ [][NextUpsert]_vars

(***************************************************************************)
(* SpecLife: two mentioned entities of one owner are upserted again under  *)
(* their keys, with other ids and other field values, updated and merged.  *)
(***************************************************************************)
LifeSeedEntities ==
    <<SeedEntity("e1", "u1", "person", "Bob"), SeedEntity("e2", "u1", "person", "rob")>>

LifeSeedMentions == <<SeedMention("e1", "m1"), SeedMention("e2", "m1")>>

InitLife == InitSeeded(LifeSeedEntities, LifeSeedMentions)

LifeEntityInputs ==
    {Entity(given @@ other) :
        given \in [id : {"e3"}, user_id : {"u1"}, type : {"person"},
                   normalized_value : {"Bob", "ann"},
                   mention_count : {-1, 1}, last_seen : {1}],
        other \in OtherFields}

(* the updates dictionaries: none, allowed fields, and keys that are not *)
Updates ==
    {[f \in {} |-> 0],
     [aliases |-> <<>>],
     [aliases |-> <<"al2">>],
     [id |-> "e4", display_value |-> "Rob"],
     [description |-> <<"d2">>, confidence |-> 50, sentiment_avg |-> <<20>>],
     [mention_count |-> 0]}

NextLife ==
    \/ \E ent \in LifeEntityInputs : upsert_entity(ent)
    \/ \E id \in {"e1", "e2"}, updates \in Updates : update_entity(id, "u1", updates)
    \/ \E k \in {"e1", "e2"}, m \in {"e1", "e2"} : merge_entities("u1", k, m)

SpecLife == InitLife /\ [][NextLife]_vars

(***************************************************************************)
(* SpecMention: add_mention alone, on two entities of one owner, with two  *)
(* settings of the details of a mention.                                   *)
(***************************************************************************)
InitMention == InitSeeded(LifeSeedEntities, <<>>)

MentionDetails ==
    {[context |-> "c1", timestamp_start |-> <<>>, timestamp_end |-> <<>>,
      speaker |-> <<>>, sentiment |-> <<>>],
     [context |-> "c2", timestamp_start |-> <<5>>, timestamp_end |-> <<9>>,
      speaker |-> <<"s1">>, sentiment |-> <<10>>]}

DetailedMentionInputs ==
    {EntityMention(given @@ details) :
        given \in [entity_id : {"e1", "e2"}, meeting_id : {"m1", NoMeeting},
                   mention_count : {1, 2}],
        details \in MentionDetails}

NextMention == \E mention \in DetailedMentionInputs : add_mention(mention)

SpecMention == InitMention /\ [][NextMention]_vars

(***************************************************************************)
(* SpecOwner: three persons of one owner and one of another, in a store    *)
(* whose meetings are the first owner's; mentions and relationships are    *)
(* added, collaborations inferred, entities merged, and the graph read.    *)
(***************************************************************************)
InitOwner == InitSeeded(InferSeedEntities, <<>>)

OwnerMentionInputs ==
    {SeedMention("e1", "m1"), SeedMention("e2", "m1"), SeedMention("e4", "m1")}

OwnerRelInputs ==
    {GraphRel("e1", "e2", "COLLABORATES_WITH"), GraphRel("e1", "e4", "COLLABORATES_WITH"),
     GraphRel("e4", "e2", "WORKS_AT")}

NextOwner ==
    \/ \E mention \in OwnerMentionInputs : add_mention(mention)
    \/ \E rel \in OwnerRelInputs : create_relationship(rel)
    \/ \E u \in Users : infer_collaborations(u, 1)
    \/ \E u \in Users, k \in {"e1", "e2", "e4"}, m \in {"e1", "e2", "e4"} :
          k # m /\ merge_entities(u, k, m)
    \/ \E u \in Users : get_entity_graph("e1", u, 2)
    \/ \E u \in Users : find_connections("e1", "e2", u, 3)
    \/ \E u \in Users, direction \in {"both", "outgoing", "incoming"} :
          get_entity_relationships("e1", u, direction)

SpecOwner == InitOwner /\ [][NextOwner]_vars

(***************************************************************************)
(* SpecWrite: entities of two owners, one of them mentioned; either owner  *)
(* creates relationships, updates and deletes entities and deletes         *)
(* relationships, by a type of the vocabulary or by another string.        *)
(***************************************************************************)
InitWrite == InitSeeded(InferSeedEntities, <<SeedMention("e1", "m1")>>)

RelationshipTypeStrings == {"COLLABORATES_WITH", "WORKS_AT", "KNOWS"}

WriteUpdates ==
    {[f \in {} |-> 0],
     [aliases |-> <<"al2">>, display_value |-> "Rob"],
     [id |-> "e3", user_id |-> "u2", normalized_value |-> "x", mention_count |-> 0],
     [id |-> "e3", user_id |-> "u2", normalized_value |-> "x", mention_count |-> 0,
      description |-> <<"d2">>]}

NextWrite ==
    \/ \E rel \in OwnerRelInputs : create_relationship(rel)
    \/ \E id \in {"e1", "e4"}, u \in Users, updates \in WriteUpdates :
          update_entity(id, u, updates)
    \/ \E id \in {"e1", "e4"}, u \in Users : delete_entity(id, u)
    \/ \E rel \in OwnerRelInputs, type \in RelationshipTypeStrings, u \in Users :
          delete_relationship(rel.from_entity_id, rel.to_entity_id, type, u)

SpecWrite == InitWrite /\ [][NextWrite]_vars

(***************************************************************************)
(* SpecKey: upsert_entity called with values that differ in letter case,   *)
(* in a trailing blank, and with the empty value.                          *)
(***************************************************************************)
KeyEntityInputs ==
    {Entity(given) : given \in
    [id : {"e1", "e2"}, user_id : {"u1"}, type : {"person"},
     normalized_value : {"Bob", "bob", "Bob ", ""}, display_value : {"Bob"},
     first_seen : {1}, last_seen : {1}]}

NextKey == \E ent \in KeyEntityInputs : upsert_entity(ent)

SpecKey == Init /\ [][NextKey]_vars

(***************************************************************************)
(* SpecCo: the store of SpecInfer, mentions in a second meeting are added  *)
(* and the co-occurrences of either owner are listed, with the default     *)
(* limit and with a limit of one row.                                      *)
(***************************************************************************)
Limits == {1, 50}

NextCo ==
    \/ \E mention \in InferMentionInputs : add_mention(mention)
    \/ \E u \in Users, min_meetings \in {1, 2}, limit \in Limits :
          get_co_occurrences(u, min_meetings, limit)

SpecCo == InitInfer /\ [][NextCo]_vars

(***************************************************************************)
(* services/langextract/extractor.py: extract_entities.  Confidences are   *)
(* held in hundredths (0.7 is 70).                                         *)
(***************************************************************************)
(* str(extraction.alignment_status), "absent" when the attribute is missing *)
AlignmentStatuses == {"EXACT", "APPROXIMATE", "absent"}

Confidence(extraction) ==
    CASE extraction.alignment_status = "EXACT" -> 100
      [] extraction.alignment_status = "APPROXIMATE" -> 85
      [] OTHER -> 80

(* attributes.get("normalized_value", entity_value).lower() raises on a    *)
(* value that is not a string ("null"); the extraction is then skipped     *)
Processable(extraction) == extraction.normalized_value # "null"

GroundedEntity(extraction) ==
    [type |-> IF extraction.extraction_class = "" THEN "topic"
              ELSE extraction.extraction_class,
     value |-> extraction.extraction_text,
     normalized_value |-> Lower(IF extraction.normalized_value = "absent"
                                THEN extraction.extraction_text
                                ELSE extraction.normalized_value),
     confidence |-> Confidence(extraction),
     source_text |-> extraction.extraction_text]

RECURSIVE GroundedEntities(_)
GroundedEntities(extractions) ==
    IF extractions = <<>> THEN <<>>
    ELSE IF Processable(Head(extractions))
         THEN <<GroundedEntity(Head(extractions))>> \o GroundedEntities(Tail(extractions))
         ELSE GroundedEntities(Tail(extractions))

(* float(os.getenv("MIN_CONFIDENCE", "0.7")): env is <<>> when unset *)
MinConfidence(env) == IF env = <<>> THEN 70 ELSE env[1]

(* the filter left out: every candidate passes *)
PassesFilter_all(e, min_confidence) == TRUE

PassesFilter(e, min_confidence) == e.confidence >= min_confidence

Filtered(ents, min_confidence) ==
    SelectSeq(ents, LAMBDA e : PassesFilter(e, min_confidence))

ExtractEntities(api_key, lx_raises, extractions, env) ==
    IF ~api_key \/ lx_raises THEN <<>>
    ELSE Filtered(GroundedEntities(extractions), MinConfidence(env))

extract_entities(api_key, lx_raises, extractions, env) ==
    /\ Idle /\ ops < MaxOps
    /\ last' = [op |-> "extract_entities",
                args |-> [api_key |-> api_key, lx_raises |-> lx_raises,
                          extractions |-> extractions, env |-> env],
                res |-> ExtractEntities(api_key, lx_raises, extractions, env)]
    /\ ops' = ops + 1
    /\ UNCHANGED <<entities, meetings, mentions, rels, apoc, credit, applied, pc, req, tx>>

(***************************************************************************)
(* SpecExtract: transcripts of up to two extractions under a configured    *)
(* minimum confidence.                                                     *)
(***************************************************************************)
Extractions ==
    [extraction_class : {"person"}, extraction_text : {"Bob"},
     normalized_value : {"absent", "null"},
     alignment_status : AlignmentStatuses]

ExtractionLists ==
    {<<>>} \cup {<<x>> : x \in Extractions}
           \cup {<<x, y>> : x \in Extractions, y \in Extractions}

MinConfidenceEnv == {<<>>, <<85>>, <<100>>}

NextExtract ==
    \E api_key \in BOOLEAN, lx_raises \in BOOLEAN,
       extractions \in ExtractionLists, env \in MinConfidenceEnv :
        extract_entities(api_key, lx_raises, extractions, env)

SpecExtract == Init /\ [][NextExtract]_vars

(***************************************************************************)
(* Claims                                                                  *)
(***************************************************************************)
LastIsMerge == last.op = "merge_entities"
EdgesOf(e, m) == EdgeIdx(mentions, e, m)

(* C1: no two live entities share (owner, type, normalized_value), and     *)
(* once every upsert_entity call has returned, each key upserted has one   *)
(* entity whose mention_count is the sum of the deltas applied.            *)
C1_OneEntityPerKey ==
    /\ \A a, b \in DOMAIN entities :
          KeyOf(entities[a]) = KeyOf(entities[b]) => a = b
    /\ (\A p \in Procs : pc[p] = "idle")
          => \A k \in Keys :
                applied[k] > 0
                => \E e \in DOMAIN entities :
                      /\ KeyOf(entities[e]) = k
                      /\ entities[e].mention_count = applied[k]

C3_MergeAddsCountOnce ==
    [][(/\ last'.op = "merge_entities" /\ last'.res = TRUE
        /\ last'.args.keep_id # last'.args.merge_id)
       => entities'[last'.args.keep_id].mention_count
            = entities[last'.args.keep_id].mention_count
              + entities[last'.args.merge_id].mention_count]_vars

(* C4: merging two distinct existing entities of the caller deletes merge  *)
(* with all its edges and reports success, whatever edges merge has.       *)
C4_MergeDeletesMerge ==
    [][(/\ last'.op = "merge_entities"
        /\ last'.args.keep_id # last'.args.merge_id
        /\ last'.args.keep_id \in DOMAIN entities
        /\ last'.args.merge_id \in DOMAIN entities
        /\ entities[last'.args.keep_id].user_id = last'.args.user_id
        /\ entities[last'.args.merge_id].user_id = last'.args.user_id)
       => (/\ last'.res = TRUE
           /\ last'.args.merge_id \notin DOMAIN entities'
           /\ \A i \in 1..Len(mentions') : mentions'[i].entity # last'.args.merge_id
           /\ \A i \in 1..Len(rels') : /\ rels'[i].from # last'.args.merge_id
                                       /\ rels'[i].to # last'.args.merge_id)]_vars

(* C5: after a successful merge of two distinct entities keep.aliases is   *)
(* the set union of keep's aliases, merge's aliases and merge's            *)
(* normalized_value, each string held once.                                *)
C5_MergeAliasesUnion ==
    [][(/\ last'.op = "merge_entities" /\ last'.res = TRUE
        /\ last'.args.keep_id # last'.args.merge_id)
       => (/\ Range(entities'[last'.args.keep_id].aliases)
                = Range(entities[last'.args.keep_id].aliases)
                  \cup Range(entities[last'.args.merge_id].aliases)
                  \cup {entities[last'.args.merge_id].normalized_value}
           /\ Cardinality(Range(entities'[last'.args.keep_id].aliases))
                = Len(entities'[last'.args.keep_id].aliases))]_vars

(* C6: every stored relationship edge has a type the compatibility table   *)
(* allows for the ordered pair of its endpoints' types.                    *)
C6_StoredRelationshipsValid ==
    \A i \in 1..Len(rels) :
        (rels[i].from \in DOMAIN entities /\ rels[i].to \in DOMAIN entities)
        => rels[i].type \in VALID_RELATIONSHIPS(entities[rels[i].from].label,
                                                entities[rels[i].to].label)

(* C7: at most one edge of a type exists between an ordered pair of        *)
(* entities, however often create_relationship is called for it.           *)
C7_OneEdgePerTriple ==
    \A i, j \in 1..Len(rels) :
        (/\ rels[i].from = rels[j].from /\ rels[i].to = rels[j].to
         /\ rels[i].type = rels[j].type) => i = j

(* C8: while a merge_entities transaction is in flight the store other     *)
(* sessions read changes only by the whole merge at once, and only in a    *)
(* call that succeeds; a failed call leaves it as it was.                  *)
C8_MergeAllOrNothing ==
    [][(/\ tx.state # "none"
        /\ <<entities, mentions, rels>>' # <<entities, mentions, rels>>)
       => (/\ entities' = MergeEntitiesOf(entities, mentions, tx.args.user_id,
                                          tx.args.keep_id, tx.args.merge_id)
           /\ mentions' = MergeMentionsOf(entities, mentions, tx.args.user_id,
                                          tx.args.keep_id, tx.args.merge_id)
           /\ rels' = MergeRelsOf(entities, mentions, rels, tx.args.user_id,
                                  tx.args.keep_id, tx.args.merge_id)
           /\ tx'.state = "none"
           /\ last'.op = "merge_entities" /\ last'.res = TRUE)]_vars

(* a merge of an entity with two Mention edges failed after its transfer   *)
(* and update clauses had run, and the store still holds merge's edges     *)
C8_Witness ==
    /\ LastIsMerge /\ "raised" \in DOMAIN last /\ last.at = "delete"
    /\ last.args.keep_id # last.args.merge_id
    /\ last.args.keep_id \in DOMAIN entities
    /\ last.args.merge_id \in DOMAIN entities
    /\ \A m \in MeetingIds : EdgesOf(last.args.merge_id, m) # {}

(* C9: a merge naming an entity that the given owner does not own is       *)
(* refused: it reports failure and changes nothing.                        *)
C9_ForeignMergeRejected ==
    [][(/\ last'.op = "merge_entities"
        /\ \/ /\ last'.args.keep_id \in DOMAIN entities
              /\ entities[last'.args.keep_id].user_id # last'.args.user_id
           \/ /\ last'.args.merge_id \in DOMAIN entities
              /\ entities[last'.args.merge_id].user_id # last'.args.user_id)
       => (last'.res = FALSE /\ UNCHANGED <<entities, meetings, mentions, rels>>)]_vars

(* keep is the caller's, merge is another owner's and has a mention *)
C9_Witness ==
    /\ LastIsMerge /\ last.res = FALSE
    /\ last.args.keep_id \in DOMAIN entities
    /\ last.args.merge_id \in DOMAIN entities
    /\ entities[last.args.keep_id].user_id = last.args.user_id
    /\ entities[last.args.merge_id].user_id # last.args.user_id
    /\ \E m \in MeetingIds : EdgesOf(last.args.merge_id, m) # {}

(* C10: add_mention naming a missing entity or a missing meeting reports   *)
(* failure and changes nothing in the store.                               *)
C10_AddMentionNotFound ==
    [][(/\ last'.op = "add_mention"
        /\ \/ last'.args.entity_id \notin DOMAIN entities
           \/ last'.args.meeting_id \notin DOMAIN meetings)
       => (last'.res = FALSE /\ UNCHANGED <<entities, meetings, mentions, rels>>)]_vars

(* the call named a meeting of the store and an entity id the store lacks *)
C10_Witness ==
    /\ last.op = "add_mention" /\ last.res = FALSE
    /\ last.args.entity_id \notin DOMAIN entities
    /\ last.args.meeting_id \in DOMAIN meetings
    /\ DOMAIN entities # {}

Strength(r) == IF "strength" \in DOMAIN r.props THEN r.props.strength ELSE -1
IsCollab(r) == r.type = "COLLABORATES_WITH"
IsInferred(r) == IsCollab(r) /\ r.props.source = "inferred"

(* C11: infer_collaborations called again with the same arguments right    *)
(* after itself adds no edge and leaves every edge's strength as it was,   *)
(* inferred edges never being parallel; and a call finding a qualifying    *)
(* pair with one shared meeting more than the strength of its edge raises  *)
(* that strength by exactly 1.                                             *)
C11_InferIdempotent ==
    [][(last'.op = "infer_collaborations")
       => /\ (last.op = "infer_collaborations" /\ last'.args = last.args)
               => /\ Len(rels') = Len(rels)
                  /\ \A i \in 1..Len(rels) :
                        /\ rels'[i].from = rels[i].from /\ rels'[i].to = rels[i].to
                        /\ rels'[i].type = rels[i].type
                        /\ Strength(rels'[i]) = Strength(rels[i])
          /\ \A i, j \in 1..Len(rels') :
                (/\ IsInferred(rels'[i]) /\ IsInferred(rels'[j])
                 /\ rels'[i].from = rels'[j].from /\ rels'[i].to = rels'[j].to) => i = j
          /\ \A pair \in InferRows(entities, mentions, last'.args.user_id,
                                    last'.args.min_co_occurrences) :
                \A i \in CollabIdx(rels, pair[1], pair[2]) :
                    Cardinality(SharedMeetings(mentions, pair[1], pair[2]))
                        = Strength(rels[i]) + 1
                    => Strength(rels'[i]) = Strength(rels[i]) + 1]_vars

(* an edge inferred at one shared meeting has been refreshed to strength 2 *)
(* by a later call, after the pair came to share a second meeting          *)
C11_Witness ==
    /\ last.op = "infer_collaborations" /\ last.res >= 1
    /\ \E i \in 1..Len(rels) :
          /\ IsInferred(rels[i]) /\ Strength(rels[i]) = 2
          /\ "updated_at" \in DOMAIN rels[i].props
          /\ credit[<<rels[i].from, "m2">>].own = 1
          /\ credit[<<rels[i].to, "m2">>].own = 1

(* the nodes within n hops of a node, by breadth-first search over the     *)
(* edges of the store taken in either direction                            *)
RECURSIVE Within(_, _)
Within(start, n) ==
    IF n = 0 THEN {start}
    ELSE LET near == Within(start, n - 1) IN
         near \cup {e.to : e \in {x \in GraphEdges(mentions, rels) : x.from \in near}}
              \cup {e.from : e \in {x \in GraphEdges(mentions, rels) : x.to \in near}}

Linked(a, b) ==
    \E i \in 1..Len(rels) :
        \/ rels[i].from = a /\ rels[i].to = b
        \/ rels[i].from = b /\ rels[i].to = a

(* the store holds the chain a - b - c - d of relationship edges and no    *)
(* other edge                                                              *)
IsChain(a, b, c, d) ==
    /\ Cardinality({a, b, c, d}) = 4
    /\ Len(rels) = 3 /\ mentions = <<>>
    /\ Linked(a, b) /\ Linked(b, c) /\ Linked(c, d)

(* C12: get_entity_graph returns no node further than depth hops from the  *)
(* entity asked for, and on a store holding just a chain A - B - C - D of  *)
(* relationship edges it returns, for A and depth 2, the nodes A, B and C. *)
C12_GraphWithinDepth ==
    last.op = "get_entity_graph"
    => /\ last.res.nodes \subseteq Within(last.args.entity_id, last.args.depth)
       /\ \A b, c, d \in DOMAIN entities :
             (/\ IsChain(last.args.entity_id, b, c, d)
              /\ MatchEntity(entities, last.args.entity_id, last.args.user_id)
              /\ last.args.depth = 2)
             => last.res.nodes = {last.args.entity_id, b, c}

(* C13: find_connections on two entities joined by no path within the hop  *)
(* bound, an entity the store lacks and an entity paired with itself       *)
(* included, returns the empty list and raises nothing.                    *)
C13_NoPathEmptyList ==
    (/\ last.op = "find_connections"
     /\ \/ last.args.entity_id_1 = last.args.entity_id_2
        \/ ~MatchEntity(entities, last.args.entity_id_1, last.args.user_id)
        \/ ~MatchEntity(entities, last.args.entity_id_2, last.args.user_id)
        \/ last.args.entity_id_2 \notin Within(last.args.entity_id_1, last.args.max_hops))
    => (last.res = <<>> /\ "raised" \notin DOMAIN last)

(* C14: every entity extract_entities returns has a confidence of at       *)
(* least the configured minimum (0.7 when none is configured); a candidate *)
(* below it is left out of the result and the call still returns normally. *)
C14_ReturnedMeetMinimum ==
    last.op = "extract_entities"
    => /\ \A i \in 1..Len(last.res) :
             last.res[i].confidence >= MinConfidence(last.args.env)
       /\ \A c \in Range(GroundedEntities(last.args.extractions)) :
             c.confidence < MinConfidence(last.args.env) => c \notin Range(last.res)
       /\ "raised" \notin DOMAIN last

(* of two candidates, the one of confidence 0.8 was dropped under a        *)
(* minimum of 0.85 and the other returned                                  *)
C14_Witness ==
    /\ last.op = "extract_entities"
    /\ last.args.env = <<85>>
    /\ Len(GroundedEntities(last.args.extractions)) = 2
    /\ Len(last.res) = 1
    /\ \E c \in Range(GroundedEntities(last.args.extractions)) : c.confidence = 80

Max(a, b) == IF a >= b THEN a ELSE b
NoDuplicate(seq) == Cardinality(Range(seq)) = Len(seq)
LastMatched == MergeMatch(entities, last'.args)

(* C15: an upsert_entity that matches an entity leaves its last_seen at    *)
(* the later of the stored and the given timestamp, so that no upsert      *)
(* moves an entity's last_seen backwards.                                  *)
C15_LastSeenIsMax ==
    [][(last'.op = "upsert_entity" /\ last'.res = "matched")
       => \A i \in LastMatched :
             /\ entities'[i].last_seen
                  = Max(entities[i].last_seen, last'.args.last_seen)
             /\ entities'[i].last_seen >= entities[i].last_seen]_vars

(* C16: an upsert_entity that matches an entity whose aliases hold no      *)
(* duplicate leaves aliases the set union of the stored and the given      *)
(* aliases, each string held once.                                         *)
C16_UpsertAliasesUnion ==
    [][(last'.op = "upsert_entity" /\ last'.res = "matched")
       => \A i \in LastMatched :
             NoDuplicate(entities[i].aliases)
             => /\ Range(entities'[i].aliases)
                     = Range(entities[i].aliases) \cup Range(last'.args.aliases)
                /\ NoDuplicate(entities'[i].aliases)]_vars

(* the mention_count an entity holds on a meeting, a missing edge being 0 *)
CountOn(ms, e, m) ==
    IF EdgeIdx(ms, e, m) = {} THEN 0
    ELSE ms[CHOOSE i \in EdgeIdx(ms, e, m) : TRUE].mention_count

C18_InferComplete ==
    last.op = "infer_collaborations"
    => /\ \A a, b \in DOMAIN entities :
             (/\ IdLess(a, b)
              /\ entities[a].label = "Person" /\ entities[b].label = "Person"
              /\ entities[a].user_id = last.args.user_id
              /\ entities[b].user_id = last.args.user_id
              /\ Cardinality(SharedMeetings(mentions, a, b)) >= last.args.min_co_occurrences)
             => /\ Cardinality(CollabIdx(rels, a, b) \cup CollabIdx(rels, b, a)) = 1
                /\ \A i \in CollabIdx(rels, a, b) \cup CollabIdx(rels, b, a) :
                      IsInferred(rels[i])
       /\ \A i \in 1..Len(rels) :
             (IsInferred(rels[i]) /\ entities[rels[i].from].user_id = last.args.user_id)
             => Strength(rels[i])
                  = Cardinality(SharedMeetings(mentions, rels[i].from, rels[i].to))

(* C19: get_entity returns the entity with every meeting it is mentioned   *)
(* in and every relationship edge leaving it or arriving at it, one entry  *)
(* per edge.                                                               *)
C19_GetEntityBothDirections ==
    (last.op = "get_entity" /\ last.res # <<>>)
    => LET e == last.args.entity_id
           touching == {i \in 1..Len(rels) : rels[i].from = e \/ rels[i].to = e}
           listed == {r \in last.res[1].relationships : r.entity # "null"}
       IN /\ last.res[1].entity = entities[e]
          /\ \A i \in 1..Len(mentions) :
                mentions[i].entity = e
                => \E m \in last.res[1].mentions : m.meeting = mentions[i].meeting
          /\ \A i \in touching :
                \E r \in listed :
                    /\ r.entity = (IF rels[i].from = e THEN rels[i].to ELSE rels[i].from)
                    /\ r.rel = rels[i].type
                    /\ r.props = <<rels[i].props>>
          /\ Cardinality(listed) = Cardinality(touching)

(* the fewest hops in which b is reached from a, 0 when max_hops do not    *)
(* suffice                                                                 *)
Distance(a, b, max_hops) ==
    IF b \notin Within(a, max_hops) THEN 0
    ELSE CHOOSE n \in 1..max_hops :
            b \in Within(a, n) /\ \A k \in 1..(n - 1) : b \notin Within(a, k)

(* the nodes and edges of a path follow one another from a to b *)
IsPath(path, a, b) ==
    /\ Len(path.nodes) = Len(path.relationships) + 1
    /\ path.nodes[1] = a /\ path.nodes[Len(path.nodes)] = b
    /\ \A i \in 1..Len(path.relationships) :
          /\ path.relationships[i] \in GraphEdges(mentions, rels)
          /\ {path.nodes[i], path.nodes[i + 1]}
               = {path.relationships[i].from, path.relationships[i].to}

(* C20: find_connections returns at most 5 paths, each the nodes and edges *)
(* in order of a path from a to b of at most max_hops edges, and of the    *)
(* fewest edges any path between a and b has.                              *)
C20_ShortestPathsReturned ==
    last.op = "find_connections"
    => /\ Len(last.res) <= 5
       /\ \A i \in 1..Len(last.res) :
             /\ IsPath(last.res[i], last.args.entity_id_1, last.args.entity_id_2)
             /\ Len(last.res[i].relationships) <= last.args.max_hops
             /\ Len(last.res[i].relationships)
                  = Distance(last.args.entity_id_1, last.args.entity_id_2,
                             last.args.max_hops)

(* the one-edge path from e1 to e4 was returned from a store that also     *)
(* joins them in three edges by way of e2 and e3                           *)
C20_Witness ==
    /\ last.op = "find_connections" /\ last.args.max_hops = 3
    /\ Len(last.res) = 1 /\ Len(last.res[1].relationships) = 1
    /\ Linked("e1", "e2") /\ Linked("e2", "e3") /\ Linked("e3", "e4")

(* the edges lying on a path of at most n edges from a node *)
EdgesWithin(start, n) ==
    {e \in GraphEdges(mentions, rels) :
        e.from \in Within(start, n - 1) \/ e.to \in Within(start, n - 1)}

(* C21: get_entity_graph on an entity of the caller returns every node     *)
(* within depth hops of it and every edge on the way, whatever the types   *)
(* of the edges and whether APOC or the basic traversal answers.           *)
C21_GraphComplete ==
    (/\ last.op = "get_entity_graph"
     /\ MatchEntity(entities, last.args.entity_id, last.args.user_id))
    => /\ last.res.nodes = Within(last.args.entity_id, last.args.depth)
       /\ EdgesWithin(last.args.entity_id, last.args.depth) \subseteq last.res.relationships

(* C22: merge_entities called again with the same arguments right after it *)
(* succeeded reports failure and leaves the store, keep's mention_count,   *)
(* aliases and Mention edges with it, as the first call left it.           *)
C22_RetriedMergeFails ==
    [][(/\ last.op = "merge_entities" /\ last.res = TRUE
        /\ last'.op = "merge_entities" /\ last'.args = last.args)
       => (last'.res = FALSE /\ UNCHANGED <<entities, meetings, mentions, rels>>)]_vars

(* a merge has failed on a merge_id the store no longer holds, keep        *)
(* holding the Mention edge it absorbed from it                            *)
C22_Witness ==
    /\ LastIsMerge /\ last.res = FALSE
    /\ last.args.keep_id # last.args.merge_id
    /\ last.args.keep_id \in DOMAIN entities
    /\ entities[last.args.keep_id].user_id = last.args.user_id
    /\ last.args.merge_id \notin DOMAIN entities
    /\ \E m \in MeetingIds :
          /\ credit[<<last.args.keep_id, m>>].absorbed > 0
          /\ EdgesOf(last.args.keep_id, m) # {}

(* a store and the results of the calls applied to it so far *)
Outcome(es, ms, rs, results) ==
    [entities |-> es, mentions |-> ms, rels |-> rs, results |-> results]

AfterMerge(o, args) ==
    Outcome(MergeEntitiesOf(o.entities, o.mentions, args.user_id, args.keep_id, args.merge_id),
            MergeMentionsOf(o.entities, o.mentions, args.user_id, args.keep_id, args.merge_id),
            MergeRelsOf(o.entities, o.mentions, o.rels, args.user_id,
                        args.keep_id, args.merge_id),
            o.results \o <<[op |-> "merge_entities", args |-> args,
                            res |-> MergeReturns(o.entities, o.mentions, args.user_id,
                                                 args.keep_id, args.merge_id)]>>)

AfterOther(o, call) ==
    IF call.op = "add_mention"
    THEN Outcome(o.entities,
                 AddMentionStore(o.entities, meetings, o.mentions, call.args), o.rels,
                 o.results \o <<[op |-> call.op, args |-> call.args,
                                 res |-> MentionEndpoints(o.entities, meetings, call.args)]>>)
    ELSE Outcome(UpsertStore(o.entities, call.args), o.mentions, o.rels,
                 o.results \o <<[op |-> call.op, args |-> call.args,
                                 res |-> UpsertResult(o.entities, call.args)]>>)

(* the two serial orders of a merge and one other call, as the set of the  *)
(* calls' results with the store they leave                                *)
SerialOutcomes(o, args, call) ==
    LET a == AfterOther(AfterMerge(o, args), call)
        b == AfterMerge(AfterOther(o, call), args)
    IN {[entities |-> x.entities, mentions |-> x.mentions, rels |-> x.rels,
         results |-> Range(x.results)] : x \in {a, b}}

(* C23: a merge_entities during which another client's add_mention or      *)
(* upsert_entity committed ends with the store and the results that one    *)
(* of the two serial orders of the two calls gives.                        *)
C23_MergeSerializable ==
    [][(tx.state = "read" /\ tx'.state = "none" /\ tx.others # <<>>)
       => [entities |-> entities', mentions |-> mentions', rels |-> rels',
           results |-> {[op |-> "merge_entities", args |-> tx.args, res |-> last'.res],
                        tx.others[1]}]
          \in SerialOutcomes(Outcome(tx.entities, tx.mentions, tx.rels, <<>>),
                             tx.args, tx.others[1])]_vars

(* the edge r with keep_id in the place of merge_id *)
Moved(r, keep_id, merge_id) ==
    [from |-> IF r.from = merge_id THEN keep_id ELSE r.from,
     to |-> IF r.to = merge_id THEN keep_id ELSE r.to,
     type |-> r.type]

(* C24: after a merge_entities that returned True, every relationship edge *)
(* between entities that had merge as an endpoint exists, with its type,   *)
(* with keep in merge's place.                                             *)
C24_RelationshipsTransferred ==
    [][(/\ ops' = ops + 1 /\ last'.op = "merge_entities" /\ last'.res = TRUE
        /\ last'.args.keep_id # last'.args.merge_id)
       => \A i \in 1..Len(rels) :
             (rels[i].from = last'.args.merge_id \/ rels[i].to = last'.args.merge_id)
             => \E j \in 1..Len(rels') :
                   Moved(rels'[j], last'.args.keep_id, last'.args.merge_id)
                     = Moved(rels[i], last'.args.keep_id, last'.args.merge_id)]_vars

(* C25: upsert_entity never raises, and returns the entity as the store    *)
(* holds it after the call.                                                *)
C25_UpsertReturnsRecord ==
    last.op = "upsert_entity"
    => /\ last.res # "raised"
       /\ Len(last.returned) = 1
       /\ last.returned[1].id \in DOMAIN entities
       /\ last.returned[1] = entities[last.returned[1].id]

(* the step is an upsert_entity that created the entity *)
Creates == ops' = ops + 1 /\ last'.op = "upsert_entity" /\ last'.res = "created"

(* C26 (amended): an upsert_entity that creates the entity gives it the    *)
(* id of the call, which no entity of the store had, the call's            *)
(* mention_count, its first_seen as first_seen, its last_seen as           *)
(* last_seen, and its aliases.                                             *)
C26_CreateSetsGiven ==
    [][Creates
       => /\ last'.args.id \notin DOMAIN entities
          /\ last'.args.id \in DOMAIN entities'
          /\ entities'[last'.args.id].id = last'.args.id
          /\ entities'[last'.args.id].mention_count = last'.args.mention_count
          /\ entities'[last'.args.id].first_seen = last'.args.first_seen
          /\ entities'[last'.args.id].last_seen = last'.args.last_seen
          /\ entities'[last'.args.id].aliases = last'.args.aliases]_vars

(* C26 as stated: the created entity has first_seen and last_seen equal,   *)
(* both the timestamp of the call.                                         *)
C26_AsStated ==
    [][Creates
       => /\ last'.args.id \in DOMAIN entities'
          /\ entities'[last'.args.id].mention_count = last'.args.mention_count
          /\ entities'[last'.args.id].first_seen = entities'[last'.args.id].last_seen
          /\ entities'[last'.args.id].last_seen = last'.args.last_seen
          /\ entities'[last'.args.id].aliases = last'.args.aliases]_vars

C26_Witness ==
    /\ last.op = "upsert_entity" /\ last.res = "created"
    /\ last.args.first_seen # last.args.last_seen
    /\ last.args.mention_count = 2
    /\ last.args.aliases # <<>>
    /\ Cardinality(DOMAIN entities) = 2

CreateOnly ==
    {"id", "display_value", "description", "confidence", "first_seen",
     "sentiment_avg", "is_user_created"}

(* C27: an upsert_entity that matches leaves the entity's id,              *)
(* display_value, description, confidence, first_seen, sentiment_avg and   *)
(* is_user_created as they were, and no upsert_entity, update_entity or    *)
(* merge_entities changes the id of an entity that stays in the store.     *)
C27_MatchKeepsCreateOnly ==
    [][/\ (ops' = ops + 1 /\ last'.op = "upsert_entity" /\ last'.res = "matched")
          => \A i \in MergeMatch(entities, last'.args) :
                /\ i \in DOMAIN entities'
                /\ \A f \in CreateOnly : entities'[i][f] = entities[i][f]
       /\ \A i \in DOMAIN entities \cap DOMAIN entities' :
             entities'[i].id = entities[i].id]_vars

C27_Witness ==
    /\ last.op = "upsert_entity" /\ last.res = "matched"
    /\ \E i \in MergeMatch(entities, last.args) :
          /\ last.args.id # entities[i].id
          /\ \A f \in CreateOnly : last.args[f] # entities[i][f]
          /\ entities[i].aliases # <<>>

(* C28: an add_mention for a pair that has a MENTIONED_IN edge adds its    *)
(* mention_count to the edge and leaves the edge's context, timestamps,    *)
(* speaker and sentiment as they were; no other edge changes.              *)
C28_RepeatOnlyCounts ==
    [][(/\ ops' = ops + 1 /\ last'.op = "add_mention"
        /\ EdgeIdx(mentions, last'.args.entity_id, last'.args.meeting_id) # {})
       => /\ Len(mentions') = Len(mentions)
          /\ \A i \in 1..Len(mentions) :
                mentions'[i] =
                  IF i \in EdgeIdx(mentions, last'.args.entity_id, last'.args.meeting_id)
                  THEN [mentions[i] EXCEPT
                          !.mention_count = @ + last'.args.mention_count]
                  ELSE mentions[i]]_vars

C28_Witness ==
    /\ last.op = "add_mention" /\ last.res = TRUE
    /\ \E i \in EdgeIdx(mentions, last.args.entity_id, last.args.meeting_id) :
          /\ mentions[i].mention_count > last.args.mention_count
          /\ mentions[i].context # last.args.context
          /\ mentions[i].timestamp_start # last.args.timestamp_start
          /\ mentions[i].timestamp_end # last.args.timestamp_end
          /\ mentions[i].speaker # last.args.speaker
          /\ mentions[i].sentiment # last.args.sentiment

(* C29: every entity of the store has mention_count >= 1, and no           *)
(* upsert_entity, update_entity or merge_entities lowers the mention_count *)
(* of an entity that stays in the store.                                   *)
C29_MentionCountPositiveMonotone ==
    [][/\ \A i \in DOMAIN entities' : entities'[i].mention_count >= 1
       /\ \A i \in DOMAIN entities \cap DOMAIN entities' :
             entities'[i].mention_count >= entities[i].mention_count]_vars

(* C30: over upsert_entity, update_entity and merge_entities every alias   *)
(* of an entity that stays in the store stays among its aliases.           *)
C30_AliasesNeverShrink ==
    [][\A i \in DOMAIN entities \cap DOMAIN entities' :
          Range(entities[i].aliases) \subseteq Range(entities'[i].aliases)]_vars

(* C31: every MENTIONED_IN edge joins an entity and a meeting of one       *)
(* owner, and every relationship edge joins two entities of one owner.     *)
C31_EdgesWithinOwner ==
    /\ \A i \in 1..Len(mentions) :
          entities[mentions[i].entity].user_id = meetings[mentions[i].meeting].user_id
    /\ \A i \in 1..Len(rels) :
          entities[rels[i].from].user_id = entities[rels[i].to].user_id

(* C32: the relationship type that create_relationship's fallback or       *)
(* delete_relationship puts into the text of its query is a member of the  *)
(* relationship vocabulary.                                                *)
C32_TypeInQueryValidated ==
    (\/ last.op = "delete_relationship"
     \/ (last.op = "create_relationship" /\ ~apoc))
    => last.args.relationship_type \in RelationshipType

(* the entity a write addresses: the entity of update_entity and           *)
(* delete_entity, the from entity of delete_relationship                   *)
Addressed(call) ==
    IF call.op = "delete_relationship" THEN call.args.from_entity_id
    ELSE call.args.entity_id

Failed(call) == IF call.op = "update_entity" THEN call.res = <<>> ELSE call.res = FALSE

(* C39: update_entity, delete_entity and delete_relationship called with a *)
(* user_id that is not the owner of the entity addressed fail and change   *)
(* no entity and no edge; update_entity without an allowed field changes   *)
(* nothing; update_entity never changes id, user_id, normalized_value or   *)
(* mention_count.                                                          *)
C39_NonOwnerWritesNoOp ==
    [][(ops' = ops + 1 /\ last'.op \in {"update_entity", "delete_entity", "delete_relationship"})
       => /\ (/\ Addressed(last') \in DOMAIN entities
              /\ entities[Addressed(last')].user_id # last'.args.user_id)
             => (Failed(last') /\ UNCHANGED <<entities, meetings, mentions, rels>>)
          /\ (/\ last'.op = "update_entity"
              /\ DOMAIN last'.args.updates \cap allowed_fields = {})
             => (Failed(last') /\ UNCHANGED <<entities, meetings, mentions, rels>>)
          /\ last'.op = "update_entity"
             => /\ DOMAIN entities' = DOMAIN entities
                /\ \A i \in DOMAIN entities :
                      \A f \in {"id", "user_id", "normalized_value", "mention_count"} :
                         entities'[i][f] = entities[i][f]]_vars

C39_Witness ==
    /\ last.op = "update_entity"
    /\ last.args.entity_id \in DOMAIN entities
    /\ entities[last.args.entity_id].user_id # last.args.user_id
    /\ {"id", "description"} \subseteq DOMAIN last.args.updates
    /\ last.res = <<>>
    /\ \E i \in 1..Len(rels) : rels[i].from = last.args.entity_id
    /\ \E i \in DOMAIN entities : entities[i].display_value = "Rob"

(* a value case-folded and with its blanks collapsed *)
Folded(s) == IF s \in {"Bob", "bob", "Bob ", "bob "} THEN "bob" ELSE s

(* C33: values that differ only in letter case or in blanks resolve, for   *)
(* one owner and type, to one entity; the key of a key is the key, and the *)
(* key of the empty value is the empty value.                              *)
C33_KeyFolded ==
    /\ \A i \in DOMAIN entities, j \in DOMAIN entities :
          (/\ entities[i].user_id = entities[j].user_id
           /\ entities[i].label = entities[j].label
           /\ Folded(entities[i].normalized_value) = Folded(entities[j].normalized_value))
          => i = j
    /\ \A s \in RawValues : Lower(Lower(s)) = Lower(s)
    /\ Lower("") = ""

Min(a, b) == IF a <= b THEN a ELSE b

(* the unordered pairs of user_id's entities sharing at least n meetings *)
Qualifying(user_id, n) ==
    {pair \in SUBSET DOMAIN entities :
        /\ Cardinality(pair) = 2
        /\ \A e \in pair : entities[e].user_id = user_id
        /\ \E a \in pair, b \in pair :
              a # b /\ Cardinality(SharedMeetings(mentions, a, b)) >= n}

PairOf(row) == {row.entity1.id, row.entity2.id}

(* every row is a qualifying pair with its count, no pair has two rows,    *)
(* and the rows are in non-increasing order of shared_meetings             *)
RankedPairs(res, user_id, n) ==
    /\ \A i \in DOMAIN res :
          /\ PairOf(res[i]) \in Qualifying(user_id, n)
          /\ res[i].shared_meetings
               = Cardinality(SharedMeetings(mentions, res[i].entity1.id, res[i].entity2.id))
    /\ \A i \in DOMAIN res, j \in DOMAIN res : PairOf(res[i]) = PairOf(res[j]) => i = j
    /\ \A i \in DOMAIN res, j \in DOMAIN res :
          i < j => res[i].shared_meetings >= res[j].shared_meetings

(* C34 (amended): get_co_occurrences lists qualifying pairs only, each at  *)
(* most once, with their count of shared meetings, in non-increasing       *)
(* order; it lists the first limit of them in that order, so every         *)
(* qualifying pair exactly once when there are at most limit of them.      *)
C34_CoOccurrencesRankedToLimit ==
    last.op = "get_co_occurrences"
    => /\ RankedPairs(last.res, last.args.user_id, last.args.min_meetings)
       /\ Len(last.res) =
            Min(last.args.limit,
                Cardinality(Qualifying(last.args.user_id, last.args.min_meetings)))
       /\ \A pair \in Qualifying(last.args.user_id, last.args.min_meetings) :
             (\A i \in DOMAIN last.res : PairOf(last.res[i]) # pair)
             => \A i \in DOMAIN last.res, a \in pair, b \in pair :
                   a # b => last.res[i].shared_meetings
                              >= Cardinality(SharedMeetings(mentions, a, b))

(* C34 as stated: every qualifying pair is listed exactly once *)
C34_AsStated ==
    last.op = "get_co_occurrences"
    => /\ RankedPairs(last.res, last.args.user_id, last.args.min_meetings)
       /\ \A pair \in Qualifying(last.args.user_id, last.args.min_meetings) :
             \E i \in DOMAIN last.res : PairOf(last.res[i]) = pair

C34_Witness ==
    /\ last.op = "get_co_occurrences"
    /\ Len(last.res) = 3
    /\ last.res[1].shared_meetings > last.res[2].shared_meetings
    /\ \E i \in 1..Len(mentions) : entities[mentions[i].entity].user_id # last.args.user_id

(* C35: after a merge_entities that returned True the entity keep_id is in *)
(* the store, whatever the arguments, keep_id = merge_id included.         *)
C35_KeepSurvives ==
    (last.op = "merge_entities" /\ last.res = TRUE)
    => last.args.keep_id \in DOMAIN entities

(* the entities of the input's owner and label whose aliases, filled by    *)
(* merges, hold the input's key                                            *)
Absorbers(es, ent) ==
    {k \in DOMAIN es :
        /\ es[k].user_id = ent.user_id
        /\ es[k].label = Capitalize(ent.type)
        /\ Lower(ent.normalized_value) \in Range(es[k].aliases)}

(* C36: an upsert_entity with the key of an entity that a merge has        *)
(* absorbed into K matches K and adds its mention_count to K's; it creates *)
(* no entity.                                                              *)
C36_AbsorbedKeyResolvesToKeep ==
    [][(/\ ops' = ops + 1 /\ last'.op = "upsert_entity"
        /\ Absorbers(entities, last'.args) # {})
       => /\ DOMAIN entities' = DOMAIN entities
          /\ \A k \in Absorbers(entities, last'.args) :
                entities'[k].mention_count
                  = entities[k].mention_count + last'.args.mention_count]_vars

(* C37: a create_relationship that succeeds leaves one new edge, and that  *)
(* edge is the edge the APOC call creates for the input and also the edge  *)
(* the fallback query creates for it: same endpoints, type and properties. *)
C37_CreatePathsEquivalent ==
    [][(ops' = ops + 1 /\ last'.op = "create_relationship" /\ last'.res = TRUE)
       => /\ Len(rels') = Len(rels) + 1
          /\ rels' = CreateEdge(rels, last'.args, ApocProps(last'.args))
          /\ rels' = CreateEdge(rels, last'.args, FallbackProps(last'.args))]_vars

(* the owner of an Entity or Meeting node *)
OwnerOf(n) == IF n \in DOMAIN entities THEN entities[n].user_id ELSE meetings[n].user_id

GraphIsolated ==
    last.op = "get_entity_graph"
    => \A n \in last.res.nodes : OwnerOf(n) = last.args.user_id

ConnectionsIsolated ==
    (last.op = "find_connections" /\ last.res # <<>>)
    => \A i \in DOMAIN last.res[1].nodes : OwnerOf(last.res[1].nodes[i]) = last.args.user_id

RelationshipsIsolated ==
    last.op = "get_entity_relationships"
    => \A row \in last.res : row.entity.user_id = last.args.user_id

(* C38: get_entity_graph, find_connections and get_entity_relationships    *)
(* called for a user return only entities and meetings of that user.       *)
C38_ReadsOwnerIsolated == GraphIsolated /\ ConnectionsIsolated /\ RelationshipsIsolated

====
